---- MODULE Spec2Model ----
(***************************************************************************)
(* Model of the quiz synchronisation service                               *)
(* (src/src/addons/mod/quiz/services/quiz-sync.ts, AddonModQuizSyncProvider)*)
(*                                                                         *)
(* One site is modelled.  Every await of performSyncQuiz / finishSync /    *)
(* validateQuestions is one step of a sync; the synchronous code between   *)
(* two awaits belongs to the step of the await that precedes it.           *)
(***************************************************************************)
EXTENDS Integers, Sequences, FiniteSets, TLC

\* ---------------------------------------------------------------- bounds
MaxCalls == 2          \* number of syncQuiz invocations in a behaviour
MaxCreated == 1        \* number of offline attempts the learner records
AttemptsPerQuiz == 2   \* attempt identifiers the remote system knows per quiz
MaxSlot == 2           \* question slots of an attempt
MaxSeq == 2            \* largest sequence-check value of an online question
MaxOfflineSeq == 1     \* largest sequence-check value stored offline
MaxTime == 6           \* last instant of the clock
MaxTimerCalls == 3     \* calls made to a throttled or debounced function
Duration == 2          \* throttle(fn, duration)
Delay == 2             \* debounce(fn, delay)
MaxUpdates == 2        \* updates one module update check reports

Quizzes == {1, 2}
Slots == 1..MaxSlot
AttemptIdsOf(q) == ((q - 1) * AttemptsPerQuiz + 1)..(q * AttemptsPerQuiz)
AllAttemptIds == UNION {AttemptIdsOf(q) : q \in Quizzes}
\* The attempt the learner continues offline.  Identifiers are interchangeable:
\* the remote lists range over every order and state of the quiz's attempts.
OfflineIdsOf(q) == {(q - 1) * AttemptsPerQuiz + 1}

\* ---------------------------------------------------------------- values
NoAttempt == [id |-> 0, quizid |-> 0, finished |-> FALSE, serial |-> 0]
NoOnline == [id |-> 0, state |-> "none"]
\* the remote attempt list of a quiz nobody has fetched yet
Unfetched == <<[id |-> 0, state |-> "unfetched"]>>
NoAnswers == [s \in Slots |-> ""]
NoQuestions == [s \in Slots |-> 0]
NoOptions ==
    [attemptId |-> 0, onlineAttempt |-> NoOnline, removeAttempt |-> FALSE,
     updated |-> FALSE, onlineQuestions |-> FALSE]
NoResult == [warnings |-> <<>>, attemptFinished |-> FALSE, updated |-> FALSE]
\* no syncAllQuizzesFunc run yet
NoBatch == [status |-> "idle", force |-> FALSE, error |-> ""]
\* no hasDataToSync invocation yet
NoQuery == [quiz |-> 0, failed |-> FALSE, rejected |-> FALSE, result |-> FALSE]
\* CoreEvents.trigger has not been called
NoEvent == [quizId |-> 0, attemptFinished |-> FALSE, warnings |-> <<>>]

AttemptStates == {"inprogress", "finished"}

\* AddonModQuiz.isAttemptFinished(state)
isAttemptFinished(state) == state \in {"finished", "abandoned"}

\* String(onlineQuestion.sequencecheck): decimal rendering of a small number.
Digits == <<"1", "2", "3", "4", "5", "6", "7", "8", "9">>
String(n) == Digits[n]
Tokens == {String(n) : n \in 1..MaxOfflineSeq}

\* Number(offlineSequenceCheck): the inverse parse ("" is not a number -> 0).
\* A leading zero does not change the number ("01" -> 1).
Number(str) == IF \E n \in 1..Len(Digits) : str \in {Digits[n], "0" \o Digits[n]}
               THEN CHOOSE n \in 1..Len(Digits) : str \in {Digits[n], "0" \o Digits[n]}
               ELSE 0

\* the same values as the offline store may hold them when they were not
\* written in canonical form
PaddedTokens == Tokens \cup {"0" \o t : t \in Tokens}

\* CoreQuestionDelegate.validateSequenceCheck(onlineQuestion, offlineSequenceCheck)
validateSequenceCheck(onlineSeq, offlineToken) == onlineSeq = Number(offlineToken)

\* All sequences of distinct elements of S (the remote system's attempt
\* identifiers are unique).
RECURSIVE DistinctSeqs(_)
DistinctSeqs(S) ==
    IF S = {} THEN {<<>>}
    ELSE {<<>>} \cup UNION {{<<x>> \o t : t \in DistinctSeqs(S \ {x})} : x \in S}

\* The attempt lists the remote system may hold for quiz q.
OnlineListsOf(q) ==
    UNION {{[i \in 1..Len(ids) |-> [id |-> ids[i], state |-> st[i]]] :
               st \in [1..Len(ids) -> AttemptStates]} :
           ids \in DistinctSeqs(AttemptIdsOf(q))}

VARIABLES
    offlineAttempts,   \* offline store: set of attempt records
    offlineAnswers,    \* offline store: attempt id -> slot -> sequence-check token ("" = no answer)
    remoteAttempts,    \* remote system: quiz -> list of attempts
    syncPromises,      \* in-flight registry: quiz -> index in syncs (0 = none)
    syncs,             \* every performSyncQuiz started: its position, locals, outcome and effects
    calls,             \* every syncQuiz invocation and what it returned
    created,           \* offline attempts recorded so far
    batch,             \* the syncAllQuizzesFunc run: its position, arguments and outcome
    tasks,             \* the callbacks of its Promise.all, one per offline attempt listed
    hasData,           \* the last hasDataToSync invocation and what it returned
    now,               \* the clock of the event loop
    throttled,         \* a function returned by throttle: its closure and what it did
    debounced          \* a function returned by debounce: its closure and what it did

vars == <<offlineAttempts, offlineAnswers, remoteAttempts,
          syncPromises, syncs, calls, created, batch, tasks, hasData,
          now, throttled, debounced>>

\* the state of the throttled and debounced functions
timerVars == <<now, throttled, debounced>>

\* no timer is pending (a pending timer is the time it is due with the
\* arguments its callback will pass)
NoTimer == [due |-> 0, args |-> ""]

\* the closures right after throttle(fn, duration) and debounce(fn, delay)
InitTimers ==
    /\ now = 0
    /\ throttled = [shouldWait |-> FALSE, timer |-> NoTimer, invoked |-> 0, log |-> <<>>]
    /\ debounced = [timeoutID |-> 0, timers |-> {}, log |-> <<>>]

Init ==
    /\ offlineAttempts = {}
    /\ offlineAnswers = [a \in AllAttemptIds |-> NoAnswers]
    /\ remoteAttempts = [q \in Quizzes |-> Unfetched]
    /\ syncPromises = [q \in Quizzes |-> 0]
    /\ syncs = <<>>
    /\ calls = <<>>
    /\ created = 0
    /\ batch = NoBatch
    /\ tasks = <<>>
    /\ hasData = NoQuery
    /\ InitTimers

\* The remote system's attempt list of quiz q: whatever it holds when it is
\* first asked, and from then on what this client's submissions made of it.
RemoteLists(remote, q) ==
    IF remote[q] = Unfetched THEN OnlineListsOf(q) ELSE {remote[q]}

\* The question data the remote system may return for the pages of the slots
\* answered offline (slot -> sequence check, 0 = no such question).
OnlineQuestionSets(offlineQuestions) ==
    {oq \in [Slots -> 0..MaxSeq] : \A s \in Slots : offlineQuestions[s] = "" => oq[s] = 0}

\* ------------------------------------------------------- offline store
\* AddonModQuizOffline.getQuizAttempts(quizId): "It should always be 0 or 1 attempt".
getQuizAttempts(store, q) == {a \in store : a.quizid = q}

\* offlineAttempts.pop()
PopAttempt(atts) == IF atts = {} THEN NoAttempt ELSE CHOOSE a \in atts : TRUE

\* AddonModQuizOffline.removeAttemptAndAnswers(attemptId): the attempts table.
removeAttempt(store, attemptId) == {a \in store : a.id # attemptId}

\* AddonModQuizOffline.removeAttemptAndAnswers(attemptId): the answers table.
removeAnswers(answers, attemptId) ==
    [a \in DOMAIN answers |-> IF a = attemptId THEN NoAnswers ELSE answers[a]]

\* variant: the removal of one slot takes the answers of the other slots too
removeQuestionAndAnswers_AllSlots(answers, attemptId, slot) ==
    [a \in DOMAIN answers |-> IF a = attemptId THEN NoAnswers ELSE answers[a]]

\* AddonModQuizOffline.removeQuestionAndAnswers(attemptId, slot)
removeQuestionAndAnswers(answers, attemptId, slot) ==
    [a \in DOMAIN answers |->
        IF a = attemptId THEN [answers[a] EXCEPT ![slot] = ""] ELSE answers[a]]

\* --------------------------------------------------- in-flight registry
\* variant: the registry is not keyed, any sync in flight is returned
getOngoingSync_AnySync(promises, q) ==
    IF \E k \in DOMAIN promises : promises[k] # 0
    THEN promises[CHOOSE k \in DOMAIN promises : promises[k] # 0]
    ELSE 0

\* CoreSyncBaseProvider.getOngoingSync(id, siteId)
getOngoingSync(promises, q) == promises[q]

\* CoreSyncBaseProvider.addOngoingSync(id, promise, siteId): registration
addOngoingSync(promises, q, p) == [promises EXCEPT ![q] = p]

\* CoreSyncBaseProvider.addOngoingSync: "finally delete" when the promise settles
removeOngoingSync(promises, q) == [promises EXCEPT ![q] = 0]

\* ------------------------------------------------ performSyncQuiz logic
\* onlineAttempts[onlineAttempts.length - 1].id, or undefined (0)
LastAttemptId(onlineAttempts) ==
    IF Len(onlineAttempts) > 0 THEN onlineAttempts[Len(onlineAttempts)].id ELSE 0

\* onlineAttempts.find((attempt) => attempt.id == offlineAttempt.id)
FindAttempt(onlineAttempts, id) ==
    IF \E i \in 1..Len(onlineAttempts) : onlineAttempts[i].id = id
    THEN LET i == CHOOSE k \in 1..Len(onlineAttempts) :
                     /\ onlineAttempts[k].id = id
                     /\ \A m \in 1..(k - 1) : onlineAttempts[m].id # id
         IN onlineAttempts[i]
    ELSE NoOnline

\* variant: the finished state of the matched attempt is not looked at
MustDiscardAttempt_OnlyMissing(onlineAttempt) == onlineAttempt.id = 0

\* !onlineAttempt || AddonModQuiz.isAttemptFinished(onlineAttempt.state)
MustDiscardAttempt(onlineAttempt) ==
    onlineAttempt.id = 0 \/ isAttemptFinished(onlineAttempt.state)

\* variant: the network is never checked
CannotSync_Never(isOnline) == FALSE

\* if (!CoreNetwork.isOnline()) throw cannotconnect
CannotSync(isOnline) == ~isOnline

\* variant: the network is looked at before the offline attempt
NetworkChecked_First(offlineAttempt) == TRUE

\* the network check comes after "if (!offlineAttempt) return this.finishSync(...)"
NetworkChecked(offlineAttempt) == offlineAttempt # NoAttempt

\* variant: the discard branch forgets to ask for the removal
DiscardOptions_NoRemove(offlineAttempt, onlineAttempt) ==
    [attemptId |-> offlineAttempt.id, onlineAttempt |-> onlineAttempt,
     removeAttempt |-> FALSE, updated |-> FALSE, onlineQuestions |-> FALSE]

\* finishSync options of the discard branch
DiscardOptions(offlineAttempt, onlineAttempt) ==
    [attemptId |-> offlineAttempt.id, onlineAttempt |-> onlineAttempt,
     removeAttempt |-> TRUE, updated |-> FALSE, onlineQuestions |-> FALSE]

\* variant: an attempt without answers is left in the store
NoAnswersOptions_Keep(lastAttemptId, onlineAttempt) ==
    [attemptId |-> lastAttemptId, onlineAttempt |-> onlineAttempt,
     removeAttempt |-> FALSE, updated |-> FALSE, onlineQuestions |-> FALSE]

\* finishSync options when no answers are stored
NoAnswersOptions(lastAttemptId, onlineAttempt) ==
    [attemptId |-> lastAttemptId, onlineAttempt |-> onlineAttempt,
     removeAttempt |-> TRUE, updated |-> FALSE, onlineQuestions |-> FALSE]

\* finishSync options after the answers were sent
SentOptions(lastAttemptId, onlineAttempt) ==
    [attemptId |-> lastAttemptId, onlineAttempt |-> onlineAttempt,
     removeAttempt |-> TRUE, updated |-> TRUE, onlineQuestions |-> TRUE]

\* variant: discarded data does not stop the attempt from being finished
FinishFlag_IgnoreDiscard(offlineAttempt, discardedData) == offlineAttempt.finished

\* const finish = !!offlineAttempt.finished && !discardedData
FinishFlag(offlineAttempt, discardedData) ==
    offlineAttempt.finished /\ ~discardedData

\* variant: the same warning whether or not the attempt was finished offline
DiscardWarnings_AlwaysPlain(offlineAttempt, discardedData) ==
    IF ~discardedData THEN <<>> ELSE <<"warningdatadiscarded">>

\* the warning pushed before the answers are sent
DiscardWarnings(offlineAttempt, discardedData) ==
    IF ~discardedData THEN <<>>
    ELSE IF offlineAttempt.finished THEN <<"warningdatadiscardedfromfinished">>
    ELSE <<"warningdatadiscarded">>

\* variant: the sequence check of the slot is not compared
SlotIsValid_AnyOnline(onlineQuestions, offlineQuestions, s) ==
    onlineQuestions[s] # 0

\* variant: the token stored offline is sent as it is
ValidatedToken_Offline(onlineSeq, offlineToken) == offlineToken

\* offlineQuestion.answers[':sequencecheck'] = String(onlineQuestion.sequencecheck)
ValidatedToken(onlineSeq, offlineToken) == String(onlineSeq)

\* variant: the page position is sent after every submission
MustLogView_Always(finish) == TRUE

\* if (!finish): the page position is sent after the answers
MustLogView(finish) == ~finish

\* variant: the removals started by validateQuestions are not waited for
AfterQuestions_NoWait(invalid) == "prepareSyncData"

\* variant: the sync waits for removals even when none was started
AfterQuestions_Stuck(invalid) == "validateQuestions"

\* const discardedData = await this.validateQuestions(...): the sync goes on
\* once the removal of every invalid slot has ended
AfterQuestions(invalid) ==
    IF invalid = {} THEN "prepareSyncData" ELSE "validateQuestions"

\* validateQuestions: is the offline data of the slot kept?
SlotIsValid(onlineQuestions, offlineQuestions, s) ==
    /\ onlineQuestions[s] # 0
    /\ validateSequenceCheck(onlineQuestions[s], offlineQuestions[s])

\* variant: every finished sync reports a change
SyncResult_AlwaysUpdated(warnings, attemptFinished, options) ==
    [warnings |-> warnings, attemptFinished |-> attemptFinished, updated |-> TRUE]

\* finishSync: return { warnings, attemptFinished, updated: !!updated || !!removeAttempt }
SyncResult(warnings, attemptFinished, options) ==
    [warnings |-> warnings, attemptFinished |-> attemptFinished,
     updated |-> (options.updated \/ options.removeAttempt)]

\* remote system: AddonModQuiz.processAttempt(..., finish) on attempt id
RemoteProcess(onlineAttempts, id, finish) ==
    [i \in 1..Len(onlineAttempts) |->
        IF onlineAttempts[i].id = id /\ finish
        THEN [onlineAttempts[i] EXCEPT !.state = "finished"]
        ELSE onlineAttempts[i]]

\* ------------------------------------------------------ module updates
\* a name is its sequence of characters
Files == <<"f", "i", "l", "e", "s">>
\* names of the updates a module update check reports: a file area, a file
\* area with a prefix, a name that has "files" but not at its end, another
Names == {Files, <<"x">> \o Files, Files \o <<"x">>, <<"c", "o", "n", "f">>}

\* no result of getModuleUpdates (none asked for, or result undefined)
NoUpdates == [defined |-> FALSE, updates |-> <<>>]
\* what getModuleUpdates may resolve with
UpdateResults ==
    {NoUpdates} \cup
    {[defined |-> TRUE, updates |-> u] :
        u \in UNION {[1..n -> Names] : n \in 0..MaxUpdates}}

\* entry.name.match(/^.*files$/): any characters, then "files", then the end
match(name) ==
    \E k \in 0..Len(name) :
       /\ Len(name) = k + Len(Files)
       /\ \A i \in 1..Len(Files) : name[k + i] = Files[i]

\* variant: whatever was updated, the quiz is downloaded
shouldDownload_AnyUpdate(result) == result.defined /\ Len(result.updates) > 0

\* if (result?.updates?.length)
\*     shouldDownload = !result.updates.find((entry) => entry.name.match(regex))
shouldDownload(result) ==
    /\ result.defined /\ Len(result.updates) > 0
    /\ ~\E i \in 1..Len(result.updates) : match(result.updates[i])

\* the calls awaited inside the try block of finishSync, in order
PrefetchCalls ==
    <<"getModuleBasicInfoByInstance", "getModuleUpdates", "download",
      "setStatusAfterPrefetch">>

\* ------------------------------------------------------------- effects
Ev(op, id) == [op |-> op, id |-> id, slot |-> 0, answers |-> NoAnswers, finish |-> FALSE]

NewSync(q) ==
    [quiz |-> q, pc |-> "syncActivity", status |-> "pending", error |-> "",
     result |-> NoResult, offlineAttempt |-> NoAttempt, isOnline |-> TRUE,
     onlineAttempts |-> <<>>, onlineAttempt |-> NoOnline,
     stored |-> {},
     lastAttemptId |-> 0, answersList |-> NoAnswers, offlineQuestions |-> NoAnswers,
     onlineQuestions |-> NoQuestions, pending |-> {}, discardedData |-> FALSE,
     finish |-> FALSE, warnings |-> <<>>, options |-> NoOptions,
     updates |-> NoUpdates, download |-> FALSE, log |-> <<>>]

Logged(rec, ev) == [rec EXCEPT !.log = Append(@, ev)]

\* the promise of performSyncQuiz settles
Resolved(rec, result) ==
    [rec EXCEPT !.pc = "done", !.status = "resolved", !.result = result]
Rejected(rec, err) ==
    [rec EXCEPT !.pc = "done", !.status = "rejected", !.error = err]

\* return this.finishSync(siteId, quiz, courseId, warnings, options): runs up
\* to its first await (invalidateAllQuizData)
EnterFinishSync(rec, warnings, options) ==
    [rec EXCEPT !.pc = "invalidate", !.warnings = warnings, !.options = options]

Running(r) == r \in 1..Len(syncs) /\ syncs[r].status = "pending"

\* ---------------------------------------------------------- environment
\* The learner answers without connectivity: the quiz player, which waits for a
\* sync in flight before it starts, records the one offline attempt of the quiz.
\* The sequence checks stored with the answers are drawn from stored.
RecordOfflineAttempt(q, stored) ==
    /\ created < MaxCreated
    /\ syncPromises[q] = 0
    /\ getQuizAttempts(offlineAttempts, q) = {}
    /\ \E id \in OfflineIdsOf(q), fin \in BOOLEAN, ans \in [Slots -> stored \cup {""}] :
          /\ offlineAttempts' = offlineAttempts \cup
                                  {[id |-> id, quizid |-> q, finished |-> fin,
                                    serial |-> created + 1]}
          /\ offlineAnswers' = [offlineAnswers EXCEPT ![id] = ans]
    /\ created' = created + 1
    /\ UNCHANGED <<batch, tasks, hasData, timerVars, remoteAttempts, syncPromises, syncs, calls>>

CreateOfflineAttempt(q) == RecordOfflineAttempt(q, Tokens)

\* --------------------------------------------------------------- syncQuiz
\* What one invocation of syncQuiz does, given the state it sees.
\*   "join"   : return the promise already in flight
\*   "throw"  : fail with errorsyncblocked
\*   "start"  : run performSyncQuiz and register its promise
SyncQuizDecision_NoJoin(ongoing, isblocked) ==
    IF isblocked THEN "throw" ELSE "start"

SyncQuizDecision_NoLock(ongoing, isblocked) ==
    IF ongoing # 0 THEN "join" ELSE "start"

\* variant: the lock is looked at before the registry
SyncQuizDecision_LockFirst(ongoing, isblocked) ==
    IF isblocked THEN "throw"
    ELSE IF ongoing # 0 THEN "join"
    ELSE "start"

SyncQuizDecision(ongoing, isblocked) ==
    IF ongoing # 0 THEN "join"
    ELSE IF isblocked THEN "throw"
    ELSE "start"

\* variant: performSyncQuiz is started but its promise is not registered
RegisterSync_Forgotten(promises, q, p) == promises

\* addOngoingSync(quiz.id, this.performSyncQuiz(...), siteId)
RegisterSync(promises, q, p) == addOngoingSync(promises, q, p)

\* the syncs of quiz q that have not settled
InFlight(q) == {r \in 1..Len(syncs) : syncs[r].quiz = q /\ syncs[r].status = "pending"}

\* What the caller of syncQuiz got (promise or error), with the circumstances
\* of the call: the syncs of the quiz then in flight and whether it was locked.
CallRecord(q, promise, error, locked) ==
    [quiz |-> q, promise |-> promise, error |-> error,
     inflight |-> InFlight(q), locked |-> locked]

SyncQuiz(q) ==
    /\ Len(calls) < MaxCalls
    /\ \E isBlocked \in BOOLEAN :   \* CoreSync.isBlocked(COMPONENT, quiz.id, siteId)
       LET ongoing == getOngoingSync(syncPromises, q)
           decision == SyncQuizDecision(ongoing, isBlocked)
           p == Len(syncs) + 1
       IN CASE decision = "join" ->
                 /\ calls' = Append(calls, CallRecord(q, ongoing, "", isBlocked))
                 /\ UNCHANGED <<syncs, syncPromises>>
            [] decision = "throw" ->
                 /\ calls' = Append(calls, CallRecord(q, 0, "errorsyncblocked", isBlocked))
                 /\ UNCHANGED <<syncs, syncPromises>>
            [] OTHER ->
                 /\ syncs' = Append(syncs, NewSync(q))
                 /\ syncPromises' = RegisterSync(syncPromises, q, p)
                 /\ calls' = Append(calls, CallRecord(q, p, "", isBlocked))
    /\ UNCHANGED <<batch, tasks, hasData, timerVars, offlineAttempts, offlineAnswers, remoteAttempts, created>>

\* ------------------------------------------------------- performSyncQuiz
Others == <<offlineAttempts, offlineAnswers, remoteAttempts,
            syncPromises, calls, created, batch, tasks, hasData, timerVars>>

\* a step of sync r that neither settles it nor touches the stores
Step(r, rec) ==
    /\ syncs' = [syncs EXCEPT ![r] = rec]
    /\ UNCHANGED Others

\* the promise of sync r settles; addOngoingSync deregisters it
Settle(r, rec) ==
    /\ syncs' = [syncs EXCEPT ![r] = rec]
    /\ syncPromises' = removeOngoingSync(syncPromises, syncs[r].quiz)

\* the last call logged by the sync rejected and the rejection was swallowed
Ignored(rec) ==
    [rec EXCEPT !.log = [@ EXCEPT ![Len(@)] = [@ EXCEPT !.op = "ignored:" \o @]]]

\* variant: the rejection of a best-effort call is thrown on
ignoreErrors_Rethrow(ok, rec) ==
    IF ok THEN rec ELSE Rejected(Ignored(rec), "wserror")

\* await CoreUtils.ignoreErrors(promise), and the try / catch around the
\* prefetch: the sync goes on the same way whether the call (the last one
\* logged in rec) resolved or rejected
ignoreErrors(ok, rec) ==
    IF ok THEN rec ELSE Ignored(rec)

\* sync r goes on as rec, or settles if rec has settled
Continue(r, rec) ==
    IF rec.status = "pending" THEN Step(r, rec)
    ELSE /\ Settle(r, rec)
         /\ UNCHANGED <<batch, tasks, hasData, timerVars, offlineAttempts, offlineAnswers,
                        remoteAttempts, calls, created>>

\* await CoreUtils.ignoreErrors(CoreCourseLogHelper.syncActivity(...)), which
\* resolves (ok) or rejects
SyncActivityAwaited(r, ok) ==
    /\ Running(r) /\ syncs[r].pc = "syncActivity"
    /\ Continue(r, ignoreErrors(ok, [Logged(syncs[r], Ev("syncActivity", 0))
                                        EXCEPT !.pc = "getQuizAttempts"]))

SyncActivity(r) == SyncActivityAwaited(r, TRUE)

\* await AddonModQuizOffline.getQuizAttempts; pop; nothing-to-do and network checks
GetQuizAttempts(r) ==
    /\ Running(r) /\ syncs[r].pc = "getQuizAttempts"
    /\ LET rec == Logged(syncs[r], Ev("getQuizAttempts", 0))
           stored == {a \in offlineAttempts : a.quizid = syncs[r].quiz}
           offlineAttempt == PopAttempt(getQuizAttempts(offlineAttempts, rec.quiz))
       IN \E isOnline \in BOOLEAN :   \* the network is reachable or not
          IF ~(NetworkChecked(offlineAttempt) /\ CannotSync(isOnline)) /\ offlineAttempt = NoAttempt
          THEN Step(r, EnterFinishSync([rec EXCEPT !.stored = stored,
                                                   !.isOnline = isOnline], <<>>, NoOptions))
          ELSE IF CannotSync(isOnline)
          THEN /\ Settle(r, Rejected([rec EXCEPT !.offlineAttempt = offlineAttempt,
                                                 !.stored = stored,
                                                 !.isOnline = isOnline],
                                     "cannotconnect"))
               /\ UNCHANGED <<batch, tasks, hasData, timerVars, offlineAttempts, offlineAnswers, remoteAttempts, calls, created>>
          ELSE Step(r, [rec EXCEPT !.offlineAttempt = offlineAttempt,
                                   !.stored = stored,
                                   !.isOnline = isOnline,
                                   !.pc = "getUserAttempts"])

\* await AddonModQuiz.getUserAttempts (ONLY_NETWORK); match; discard branch
GetUserAttempts(r) ==
    /\ Running(r) /\ syncs[r].pc = "getUserAttempts"
    /\ \E onlineAttempts \in RemoteLists(remoteAttempts, syncs[r].quiz) :
       LET rec == Logged(syncs[r], Ev("getUserAttempts", 0))
           lastAttemptId == LastAttemptId(onlineAttempts)
           onlineAttempt == FindAttempt(onlineAttempts, rec.offlineAttempt.id)
           rec2 == [rec EXCEPT !.onlineAttempts = onlineAttempts,
                               !.lastAttemptId = lastAttemptId,
                               !.onlineAttempt = onlineAttempt]
       IN /\ remoteAttempts' = [remoteAttempts EXCEPT ![rec.quiz] = onlineAttempts]
          /\ syncs' = [syncs EXCEPT ![r] =
                 IF MustDiscardAttempt(onlineAttempt)
                 THEN EnterFinishSync(rec2, <<"warningattemptfinished">>,
                                      DiscardOptions(rec.offlineAttempt, onlineAttempt))
                 ELSE [rec2 EXCEPT !.pc = "getAttemptAnswers"]]
    /\ UNCHANGED <<batch, tasks, hasData, timerVars, offlineAttempts, offlineAnswers,
                   syncPromises, calls, created>>

\* await AddonModQuizOffline.getAttemptAnswers; empty answer set; classify by slot
GetAttemptAnswers(r) ==
    /\ Running(r) /\ syncs[r].pc = "getAttemptAnswers"
    /\ LET rec == Logged(syncs[r], Ev("getAttemptAnswers", syncs[r].offlineAttempt.id))
           answersList == offlineAnswers[rec.offlineAttempt.id]
       IN IF answersList = NoAnswers
          THEN Step(r, EnterFinishSync(rec, rec.warnings,
                                       NoAnswersOptions(rec.lastAttemptId, rec.onlineAttempt)))
          ELSE Step(r, [rec EXCEPT !.answersList = answersList,
                                   !.offlineQuestions = answersList,
                                   !.pc = "getQuizAccessInformation"])

\* await AddonModQuiz.getQuizAccessInformation
GetQuizAccessInformation(r) ==
    /\ Running(r) /\ syncs[r].pc = "getQuizAccessInformation"
    /\ Step(r, [Logged(syncs[r], Ev("getQuizAccessInformation", 0))
                   EXCEPT !.pc = "getPreflightData"])

\* await AddonModQuizPrefetchHandler.getPreflightData
GetPreflightData(r) ==
    /\ Running(r) /\ syncs[r].pc = "getPreflightData"
    /\ Step(r, [Logged(syncs[r], Ev("getPreflightData", 0))
                   EXCEPT !.pc = "getAllQuestionsData"])

\* await AddonModQuiz.getAllQuestionsData, then validateQuestions up to its
\* awaits: valid slots take the online sequence check, the removal of every
\* other slot is started.
GetAllQuestionsData(r) ==
    /\ Running(r) /\ syncs[r].pc = "getAllQuestionsData"
    /\ \E onlineQuestions \in OnlineQuestionSets(syncs[r].offlineQuestions) :
        LET rec == Logged(syncs[r], Ev("getAllQuestionsData", syncs[r].onlineAttempt.id))
            offl == rec.offlineQuestions
            touched == {s \in Slots : offl[s] # ""}
            invalid == {s \in touched : ~SlotIsValid(onlineQuestions, offl, s)}
        IN Step(r, [rec EXCEPT
                     !.onlineQuestions = onlineQuestions,
                     !.offlineQuestions =
                         [s \in Slots |-> IF s \in touched \ invalid
                                          THEN ValidatedToken(onlineQuestions[s], offl[s])
                                          ELSE offl[s]],
                     !.pending = invalid,
                     !.pc = AfterQuestions(invalid)])

\* validateQuestions: await AddonModQuizOffline.removeQuestionAndAnswers(attemptId, slot)
RemoveQuestionAndAnswers(r, s) ==
    /\ r \in 1..Len(syncs) /\ s \in syncs[r].pending
    /\ LET rec == Logged(syncs[r], [Ev("removeQuestionAndAnswers", syncs[r].onlineAttempt.id)
                                       EXCEPT !.slot = s])
           left == rec.pending \ {s}
       IN /\ offlineAnswers' = removeQuestionAndAnswers(offlineAnswers, rec.onlineAttempt.id, s)
          /\ syncs' = [syncs EXCEPT ![r] =
                 [rec EXCEPT !.pending = left,
                             !.discardedData = TRUE,
                             !.offlineQuestions = [@ EXCEPT ![s] = ""],
                             !.pc = IF rec.pc = "validateQuestions" /\ left = {}
                                    THEN "prepareSyncData" ELSE @]]
    /\ UNCHANGED <<batch, tasks, hasData, timerVars, offlineAttempts, remoteAttempts,
                   syncPromises, calls, created>>

\* await Promise.all(prepareSyncData ...); then answers, finish and warnings
PrepareSyncData(r) ==
    /\ Running(r) /\ syncs[r].pc = "prepareSyncData"
    /\ LET rec == Logged(syncs[r], Ev("prepareSyncData", 0))
       IN Step(r, [rec EXCEPT
                    !.finish = FinishFlag(rec.offlineAttempt, rec.discardedData),
                    !.warnings = @ \o DiscardWarnings(rec.offlineAttempt, rec.discardedData),
                    !.pc = "processAttempt"])

\* await AddonModQuiz.processAttempt(quiz, onlineAttempt, answers, preflightData, finish, ...)
ProcessAttempt(r) ==
    /\ Running(r) /\ syncs[r].pc = "processAttempt"
    /\ LET rec == Logged(syncs[r], [Ev("processAttempt", syncs[r].onlineAttempt.id)
                                       EXCEPT !.answers = syncs[r].offlineQuestions,
                                              !.finish = syncs[r].finish])
       IN /\ remoteAttempts' = [remoteAttempts EXCEPT ![rec.quiz] =
                                   RemoteProcess(@, rec.onlineAttempt.id, rec.finish)]
          /\ syncs' = [syncs EXCEPT ![r] =
                 IF MustLogView(rec.finish)
                 THEN [rec EXCEPT !.pc = "logViewAttempt"]
                 ELSE EnterFinishSync(rec, rec.warnings,
                                      SentOptions(rec.lastAttemptId, rec.onlineAttempt))]
    /\ UNCHANGED <<batch, tasks, hasData, timerVars, offlineAttempts, offlineAnswers,
                   syncPromises, calls, created>>

\* await CoreUtils.ignoreErrors(AddonModQuiz.logViewAttempt(onlineAttempt.id, currentpage, ...))
LogViewAttemptAwaited(r, ok) ==
    /\ Running(r) /\ syncs[r].pc = "logViewAttempt"
    /\ LET rec == Logged(syncs[r], Ev("logViewAttempt", syncs[r].onlineAttempt.id))
       IN Continue(r, ignoreErrors(ok,
                EnterFinishSync(rec, rec.warnings,
                                SentOptions(rec.lastAttemptId, rec.onlineAttempt))))

LogViewAttempt(r) == LogViewAttemptAwaited(r, TRUE)

\* ------------------------------------------------------------- finishSync
\* variant: the sync time is recorded only after data was sent
AfterRemove_NoSyncTime(options) ==
    IF options.updated THEN "prefetch" ELSE "checkFinished"

\* what finishSync awaits after the offline data is (or is not) removed
AfterRemove(options) == IF options.updated THEN "prefetch" ELSE "setSyncTime"

\* if (options.removeAttempt && options.attemptId)
MustRemove(options) == options.removeAttempt /\ options.attemptId # 0

\* await CoreUtils.ignoreErrors(AddonModQuiz.invalidateAllQuizData(...))
InvalidateAllQuizDataAwaited(r, ok) ==
    /\ Running(r) /\ syncs[r].pc = "invalidate"
    /\ LET rec == Logged(syncs[r], Ev("invalidateAllQuizData", syncs[r].options.attemptId))
       IN Continue(r, ignoreErrors(ok,
                [rec EXCEPT !.pc = IF MustRemove(rec.options)
                                   THEN "removeAttempt" ELSE AfterRemove(rec.options)]))

InvalidateAllQuizData(r) == InvalidateAllQuizDataAwaited(r, TRUE)

\* await Promise.all([removeAttemptAndAnswers(options.attemptId), deleteOfflineData ...])
RemoveAttemptAndAnswers(r) ==
    /\ Running(r) /\ syncs[r].pc = "removeAttempt"
    /\ LET rec == Logged(syncs[r], Ev("removeAttemptAndAnswers", syncs[r].options.attemptId))
       IN /\ offlineAttempts' = removeAttempt(offlineAttempts, rec.options.attemptId)
          /\ offlineAnswers' = removeAnswers(offlineAnswers, rec.options.attemptId)
          /\ syncs' = [syncs EXCEPT ![r] = [rec EXCEPT !.pc = AfterRemove(rec.options)]]
    /\ UNCHANGED <<batch, tasks, hasData, timerVars, remoteAttempts, syncPromises, calls, created>>

\* try { getModuleBasicInfoByInstance; prefetchAfterUpdateQuiz } catch { }
\* failAt (0: none) is the call of PrefetchCalls that rejects, result what
\* getModuleUpdates resolves with when it is reached
PrefetchAfterUpdateQuiz(r, failAt, result) ==
    /\ Running(r) /\ syncs[r].pc = "prefetch"
    /\ failAt = 3 => shouldDownload(result)
    /\ LET reported == IF failAt \in {1, 2} THEN NoUpdates ELSE result
           rec == [Logged(syncs[r], Ev("prefetchAfterUpdateQuiz", 0))
                      EXCEPT !.updates = reported,
                             !.download = shouldDownload(reported),
                             !.pc = "setSyncTime"]
       IN Continue(r, ignoreErrors(failAt = 0, rec))

\* the same when the module update check reports nothing
PrefetchAfterUpdateAwaited(r, ok) ==
    PrefetchAfterUpdateQuiz(r, IF ok THEN 0 ELSE 1, NoUpdates)

PrefetchAfterUpdate(r) == PrefetchAfterUpdateAwaited(r, TRUE)

\* await CoreUtils.ignoreErrors(this.setSyncTime(quiz.id, siteId)); then either
\* the attempt is looked up again or the result is returned
SetSyncTimeAwaited(r, ok) ==
    /\ Running(r) /\ syncs[r].pc = "setSyncTime"
    /\ LET rec == ignoreErrors(ok, Logged(syncs[r], Ev("setSyncTime", 0)))
           o == rec.options.onlineAttempt
       IN IF rec.status # "pending"
          THEN Continue(r, rec)
          ELSE IF o.id # 0 /\ ~isAttemptFinished(o.state)
          THEN Step(r, [rec EXCEPT !.pc = "checkFinished"])
          ELSE /\ Settle(r, Resolved(rec, SyncResult(rec.warnings, FALSE, rec.options)))
               /\ UNCHANGED <<batch, tasks, hasData, timerVars, offlineAttempts, offlineAnswers, remoteAttempts, calls, created>>

SetSyncTime(r) == SetSyncTimeAwaited(r, TRUE)

\* const attempts = await AddonModQuiz.getUserAttempts(...); attemptFinished
CheckAttemptFinished(r) ==
    /\ Running(r) /\ syncs[r].pc = "checkFinished"
    /\ LET rec == Logged(syncs[r], Ev("getUserAttemptsAfter", 0))
           attempt == FindAttempt(remoteAttempts[rec.quiz], rec.options.onlineAttempt.id)
           attemptFinished == attempt.id # 0 /\ isAttemptFinished(attempt.state)
       IN Settle(r, Resolved(rec, SyncResult(rec.warnings, attemptFinished, rec.options)))
    /\ UNCHANGED <<batch, tasks, hasData, timerVars, offlineAttempts, offlineAnswers, remoteAttempts, calls, created>>

\* ------------------------------------------------------ required steps fail
\* the awaits whose rejection is not caught
RequiredSteps ==
    {"getQuizAttempts", "getUserAttempts", "getAttemptAnswers",
     "getQuizAccessInformation", "getPreflightData", "getAllQuestionsData",
     "validateQuestions", "prepareSyncData", "processAttempt",
     "removeAttempt", "checkFinished"}

\* variant: the rejection of a required call is turned into an empty result
StepFails_Swallowed(r) ==
    /\ Running(r) /\ syncs[r].pc \in RequiredSteps
    /\ LET rec == Logged(syncs[r], Ev("failed:" \o syncs[r].pc, 0))
       IN IF rec.pc = "validateQuestions"
          THEN \E s \in rec.pending :
                  Settle(r, Resolved([rec EXCEPT !.pending = @ \ {s}], NoResult))
          ELSE Settle(r, Resolved(rec, NoResult))
    /\ UNCHANGED <<batch, tasks, hasData, timerVars, offlineAttempts, offlineAnswers, remoteAttempts, calls, created>>

\* the awaited call of a required step rejects: performSyncQuiz rejects with it.
\* In validateQuestions it is the removal of one slot that fails.
StepFails(r) ==
    /\ Running(r) /\ syncs[r].pc \in RequiredSteps
    /\ LET rec == Logged(syncs[r], Ev("failed:" \o syncs[r].pc, 0))
       IN IF rec.pc = "validateQuestions"
          THEN \E s \in rec.pending :
                  Settle(r, Rejected([rec EXCEPT !.pending = @ \ {s}], "wserror"))
          ELSE Settle(r, Rejected(rec, "wserror"))
    /\ UNCHANGED <<batch, tasks, hasData, timerVars, offlineAttempts, offlineAnswers, remoteAttempts, calls, created>>

Next ==
    \/ \E q \in Quizzes : CreateOfflineAttempt(q)
    \/ \E q \in Quizzes : SyncQuiz(q)
    \/ \E r \in 1..MaxCalls : SyncActivity(r)
    \/ \E r \in 1..MaxCalls : GetQuizAttempts(r)
    \/ \E r \in 1..MaxCalls : GetUserAttempts(r)
    \/ \E r \in 1..MaxCalls : GetAttemptAnswers(r)
    \/ \E r \in 1..MaxCalls : GetQuizAccessInformation(r)
    \/ \E r \in 1..MaxCalls : GetPreflightData(r)
    \/ \E r \in 1..MaxCalls : GetAllQuestionsData(r)
    \/ \E r \in 1..MaxCalls, s \in Slots : RemoveQuestionAndAnswers(r, s)
    \/ \E r \in 1..MaxCalls : PrepareSyncData(r)
    \/ \E r \in 1..MaxCalls : ProcessAttempt(r)
    \/ \E r \in 1..MaxCalls : LogViewAttempt(r)
    \/ \E r \in 1..MaxCalls : InvalidateAllQuizData(r)
    \/ \E r \in 1..MaxCalls : RemoveAttemptAndAnswers(r)
    \/ \E r \in 1..MaxCalls : PrefetchAfterUpdate(r)
    \/ \E r \in 1..MaxCalls : SetSyncTime(r)
    \/ \E r \in 1..MaxCalls : CheckAttemptFinished(r)
    \/ \E r \in 1..MaxCalls : StepFails(r)

Spec == Init /\ [][Next]_vars

TypeOK ==
    /\ \A q \in Quizzes : Cardinality(getQuizAttempts(offlineAttempts, q)) <= 1
    /\ syncPromises \in [Quizzes -> 0..MaxCalls]
    /\ Len(calls) <= MaxCalls /\ Len(syncs) <= Len(calls)

\* ===================================================== syncAllQuizzesFunc
MaxSyncs == MaxCalls + Cardinality(Quizzes)   \* syncs a behaviour with a batch can start

\* The offline attempts a batch run may find on the site: two records of
\* quiz 1 (the store does not stop a second record), left unfinished without
\* answers, and a finished attempt of quiz 2.
BatchAttempts ==
    {[id |-> 1, quizid |-> 1, finished |-> FALSE, serial |-> 1],
     [id |-> 2, quizid |-> 1, finished |-> FALSE, serial |-> 1],
     [id |-> AttemptsPerQuiz + 1, quizid |-> 2, finished |-> TRUE, serial |-> 1]}

\* a second record of a quiz is there only beside the first
BatchStores ==
    {st \in SUBSET BatchAttempts :
        \A a \in st : a.id - 1 \in AttemptIdsOf(a.quizid) => \E b \in st : b.id = a.id - 1}

\* the finished attempt carries one answered slot
BatchAnswers(st) ==
    [a \in AllAttemptIds |->
        IF \E x \in st : x.id = a /\ x.finished
        THEN [s \in Slots |-> IF s = 1 THEN String(1) ELSE ""]
        ELSE NoAnswers]

\* The remote system holds every attempt of the quiz that is stored offline, in
\* the order of their identifiers: the first in progress or finished, a later
\* one in progress.
BatchRemoteLists(q) ==
    {l \in OnlineListsOf(q) :
        /\ Len(l) = Cardinality({a \in BatchAttempts : a.quizid = q})
        /\ \A i \in 1..Len(l) : l[i].id = (q - 1) * AttemptsPerQuiz + i
        /\ \A i \in 2..Len(l) : l[i].state = "inprogress"}

InitAll ==
    /\ offlineAttempts \in BatchStores
    /\ offlineAnswers = BatchAnswers(offlineAttempts)
    /\ remoteAttempts \in [Quizzes -> UNION {BatchRemoteLists(q) : q \in Quizzes}]
    /\ \A q \in Quizzes : remoteAttempts[q] \in BatchRemoteLists(q)
    /\ syncPromises = [q \in Quizzes |-> 0]
    /\ syncs = <<>>
    /\ calls = <<>>
    /\ created = 0
    /\ batch = NoBatch
    /\ tasks = <<>>
    /\ hasData = NoQuery
    /\ InitTimers

\* AddonModQuizOffline.getAllAttempts(siteId): the records of the site, by id
RECURSIVE getAllAttempts(_)
getAllAttempts(store) ==
    IF store = {} THEN <<>>
    ELSE LET a == CHOOSE x \in store : \A y \in store : x.id <= y.id
         IN <<a>> \o getAllAttempts(store \ {a})

\* variant: no record is kept of the quizzes already treated
AlreadyTreated_Never(attempts, i) == FALSE

\* if (quizIds[attempt.quizid]) return; quizIds[attempt.quizid] = true
AlreadyTreated(attempts, i) ==
    \E j \in 1..(i - 1) : attempts[j].quizid = attempts[i].quizid

\* variant: the batch does not look at the lock
SkipBlocked_Never(isBlocked) == FALSE

\* if (CoreSync.isBlocked(COMPONENT, attempt.quizid, siteId)) return
SkipBlocked(isBlocked) == isBlocked

\* variant: the staleness check is consulted whatever force says
UseSyncIfNeeded_Always(force) == TRUE

\* force ? this.syncQuiz(...) : this.syncQuizIfNeeded(...)
UseSyncIfNeeded(force) == ~force

\* variant: the quiz is synchronised whatever the staleness check says
MustSync_Always(needed) == TRUE

\* syncQuizIfNeeded: if (needed) return this.syncQuiz(...)
MustSync(needed) == needed

\* variant: warnings are stored only for a sync that finished the attempt
MustStoreWarnings_OnlyFinished(defined, data) ==
    defined /\ Len(data.warnings) > 0 /\ data.attemptFinished

\* if (data?.warnings?.length)
MustStoreWarnings(defined, data) == defined /\ Len(data.warnings) > 0

\* variant: the event is sent only when the sync changed something
MustTrigger_OnlyUpdated(defined, data) == defined /\ data.updated

\* if (data)
MustTrigger(defined, data) == defined

\* CoreEvents.trigger(AUTO_SYNCED, { quizId, attemptFinished, warnings }, siteId)
AutoSynced(q, data) ==
    [quizId |-> q, attemptFinished |-> data.attemptFinished, warnings |-> data.warnings]

\* one callback of attempts.map(async (attempt) => ...)
NewTask(q) ==
    [quiz |-> q, pc |-> "getQuizById", status |-> "pending", error |-> "",
     skipped |-> "", blocked |-> FALSE, asked |-> FALSE, needed |-> FALSE,
     call |-> 0, promise |-> 0, defined |-> FALSE, data |-> NoResult,
     stored |-> FALSE, storedWarnings |-> <<>>,
     emitted |-> FALSE, event |-> NoEvent, batchWas |-> "running"]

\* the callback returns (its promise resolves)
TaskResolved(task) == [task EXCEPT !.pc = "done", !.status = "resolved"]
\* the callback throws (its promise rejects)
TaskRejected(task, err) == [task EXCEPT !.pc = "done", !.status = "rejected", !.error = err]

\* the callback of attempts[i], run up to its first await
MapCallback(attempts, i, blockedQuizzes) ==
    LET q == attempts[i].quizid
    IN IF AlreadyTreated(attempts, i)
       THEN TaskResolved([NewTask(q) EXCEPT !.skipped = "duplicate"])
       ELSE IF SkipBlocked(q \in blockedQuizzes)
       THEN TaskResolved([NewTask(q) EXCEPT !.skipped = "blocked", !.blocked = TRUE])
       ELSE [NewTask(q) EXCEPT !.blocked = q \in blockedQuizzes]

\* variant: a rejected callback does not reject the batch
PromiseAll_Settled(b, ts) ==
    IF b.status # "running" THEN b
    ELSE IF \A t \in 1..Len(ts) : ts[t].status # "pending"
    THEN [b EXCEPT !.status = "resolved"]
    ELSE b

\* await Promise.all(attempts.map(...)): rejects with the first callback that
\* rejects, resolves when every callback has resolved
PromiseAll(b, ts) ==
    IF b.status # "running" THEN b
    ELSE IF \E t \in 1..Len(ts) : ts[t].status = "rejected"
    THEN [b EXCEPT !.status = "rejected",
                   !.error = ts[CHOOSE t \in 1..Len(ts) : ts[t].status = "rejected"].error]
    ELSE IF \A t \in 1..Len(ts) : ts[t].status = "resolved"
    THEN [b EXCEPT !.status = "resolved"]
    ELSE b

\* syncAllQuizzesFunc(force, siteId) is called: it awaits getAllAttempts
SyncAllQuizzesFunc(force) ==
    /\ batch.status = "idle"
    /\ batch' = [status |-> "getAllAttempts", force |-> force, error |-> ""]
    /\ UNCHANGED <<offlineAttempts, offlineAnswers, remoteAttempts,
                   syncPromises, syncs, calls, created, tasks, hasData, timerVars>>

\* const attempts = await getAllAttempts(siteId); every callback of the map
\* runs up to its first await; Promise.all is awaited
GetAllAttempts ==
    /\ batch.status = "getAllAttempts"
    /\ LET attempts == getAllAttempts(offlineAttempts)
       IN \E blockedQuizzes \in SUBSET {attempts[i].quizid : i \in 1..Len(attempts)} :
             /\ tasks' = [i \in 1..Len(attempts) |-> MapCallback(attempts, i, blockedQuizzes)]
             /\ batch' = PromiseAll([batch EXCEPT !.status = "running"], tasks')
    /\ UNCHANGED <<offlineAttempts, offlineAnswers, remoteAttempts,
                   syncPromises, syncs, calls, created, hasData, timerVars>>

\* getAllAttempts rejects: so does syncAllQuizzesFunc
GetAllAttemptsFails ==
    /\ batch.status = "getAllAttempts"
    /\ batch' = [batch EXCEPT !.status = "rejected", !.error = "dberror"]
    /\ UNCHANGED <<offlineAttempts, offlineAnswers, remoteAttempts,
                   syncPromises, syncs, calls, created, tasks, hasData, timerVars>>

\* variant: a callback stops once the batch has been rejected
TaskAt_UntilRejected(t, pc) ==
    /\ t \in 1..Len(tasks) /\ tasks[t].status = "pending" /\ tasks[t].pc = pc
    /\ batch.status = "running"

\* callback t is suspended at the await named pc; nothing cancels a callback
TaskAt(t, pc) == t \in 1..Len(tasks) /\ tasks[t].status = "pending" /\ tasks[t].pc = pc

\* callback t moves on (batchWas: what had become of the batch when it did)
TaskStep(t, task) ==
    /\ tasks' = [tasks EXCEPT ![t] = [task EXCEPT !.batchWas = batch.status]]
    /\ batch' = PromiseAll(batch, tasks')

\* this.syncQuiz(quiz, false, siteId) called by callback t, whose record is task
CallSyncQuiz(t, task) ==
    \E isBlocked \in BOOLEAN :   \* CoreSync.isBlocked(COMPONENT, quiz.id, siteId)
       LET q == task.quiz
           ongoing == getOngoingSync(syncPromises, q)
           decision == SyncQuizDecision(ongoing, isBlocked)
           p == Len(syncs) + 1
           c == Len(calls) + 1
       IN CASE decision = "join" ->
                 /\ calls' = Append(calls, CallRecord(q, ongoing, "", isBlocked))
                 /\ TaskStep(t, [task EXCEPT !.call = c, !.promise = ongoing,
                                             !.pc = "awaitSync"])
                 /\ UNCHANGED <<syncs, syncPromises>>
            [] decision = "throw" ->
                 /\ calls' = Append(calls, CallRecord(q, 0, "errorsyncblocked", isBlocked))
                 /\ TaskStep(t, TaskRejected([task EXCEPT !.call = c], "errorsyncblocked"))
                 /\ UNCHANGED <<syncs, syncPromises>>
            [] OTHER ->
                 /\ syncs' = Append(syncs, NewSync(q))
                 /\ syncPromises' = RegisterSync(syncPromises, q, p)
                 /\ calls' = Append(calls, CallRecord(q, p, "", isBlocked))
                 /\ TaskStep(t, [task EXCEPT !.call = c, !.promise = p,
                                             !.pc = "awaitSync"])

\* const quiz = await AddonModQuiz.getQuizById(...); then syncQuiz or
\* syncQuizIfNeeded is called and runs up to its first await
GetQuizById(t) ==
    /\ TaskAt(t, "getQuizById")
    /\ IF UseSyncIfNeeded(batch.force)
       THEN /\ TaskStep(t, [tasks[t] EXCEPT !.pc = "isSyncNeeded"])
            /\ UNCHANGED <<syncs, syncPromises, calls>>
       ELSE CallSyncQuiz(t, tasks[t])
    /\ UNCHANGED <<offlineAttempts, offlineAnswers, remoteAttempts, created, hasData, timerVars>>

\* syncQuizIfNeeded: const needed = await this.isSyncNeeded(quiz.id, siteId)
IsSyncNeeded(t) ==
    /\ TaskAt(t, "isSyncNeeded")
    /\ \E needed \in BOOLEAN :
          LET task == [tasks[t] EXCEPT !.asked = TRUE, !.needed = needed]
          IN IF MustSync(needed)
             THEN CallSyncQuiz(t, task)
             ELSE /\ TaskStep(t, TaskResolved([task EXCEPT !.skipped = "notneeded"]))
                  /\ UNCHANGED <<syncs, syncPromises, calls>>
    /\ UNCHANGED <<offlineAttempts, offlineAnswers, remoteAttempts, created, hasData, timerVars>>

\* the callback after its data is known: the event is sent and it returns
Trigger(task) ==
    IF MustTrigger(task.defined, task.data)
    THEN TaskResolved([task EXCEPT !.emitted = TRUE,
                                   !.event = AutoSynced(task.quiz, task.data)])
    ELSE TaskResolved(task)

\* const data = await ...: the promise of the sync has settled
AwaitSync(t) ==
    /\ TaskAt(t, "awaitSync")
    /\ LET sync == syncs[tasks[t].promise]
           task == [tasks[t] EXCEPT !.defined = TRUE, !.data = sync.result]
       IN /\ sync.status # "pending"
          /\ IF sync.status = "rejected"
             THEN TaskStep(t, TaskRejected(tasks[t], sync.error))
             ELSE IF MustStoreWarnings(task.defined, task.data)
             THEN TaskStep(t, [task EXCEPT !.pc = "setSyncWarnings"])
             ELSE TaskStep(t, Trigger(task))
    /\ UNCHANGED <<offlineAttempts, offlineAnswers, remoteAttempts,
                   syncPromises, syncs, calls, created, hasData, timerVars>>

\* await this.setSyncWarnings(quiz.id, data.warnings, siteId)
SetSyncWarnings(t) ==
    /\ TaskAt(t, "setSyncWarnings")
    /\ TaskStep(t, Trigger([tasks[t] EXCEPT !.stored = TRUE,
                                            !.storedWarnings = tasks[t].data.warnings]))
    /\ UNCHANGED <<offlineAttempts, offlineAnswers, remoteAttempts,
                   syncPromises, syncs, calls, created, hasData, timerVars>>

\* getQuizById, isSyncNeeded or setSyncWarnings rejects: so does the callback
TaskFails(t) ==
    /\ \E pc \in {"getQuizById", "isSyncNeeded", "setSyncWarnings"} : TaskAt(t, pc)
    /\ TaskStep(t, TaskRejected(tasks[t], "failed:" \o tasks[t].pc))
    /\ UNCHANGED <<offlineAttempts, offlineAnswers, remoteAttempts,
                   syncPromises, syncs, calls, created, hasData, timerVars>>

MaxTasks == Cardinality(BatchAttempts) - 1

\* the quiz page synchronises quiz q before the batch calls syncQuiz
FirstSyncQuiz(q) == calls = <<>> /\ SyncQuiz(q)

NextAll ==
    \/ FirstSyncQuiz(1)
    \/ \E force \in BOOLEAN : SyncAllQuizzesFunc(force)
    \/ GetAllAttempts
    \/ GetAllAttemptsFails
    \/ \E t \in 1..MaxTasks : GetQuizById(t)
    \/ \E t \in 1..MaxTasks : IsSyncNeeded(t)
    \/ \E t \in 1..MaxTasks : AwaitSync(t)
    \/ \E t \in 1..MaxTasks : SetSyncWarnings(t)
    \/ \E t \in 1..MaxTasks : TaskFails(t)
    \/ \E r \in 1..MaxSyncs : SyncActivity(r)
    \/ \E r \in 1..MaxSyncs : GetQuizAttempts(r)
    \/ \E r \in 1..MaxSyncs : GetUserAttempts(r)
    \/ \E r \in 1..MaxSyncs : GetAttemptAnswers(r)
    \/ \E r \in 1..MaxSyncs : GetQuizAccessInformation(r)
    \/ \E r \in 1..MaxSyncs : GetPreflightData(r)
    \/ \E r \in 1..MaxSyncs : GetAllQuestionsData(r)
    \/ \E r \in 1..MaxSyncs, s \in Slots : RemoveQuestionAndAnswers(r, s)
    \/ \E r \in 1..MaxSyncs : PrepareSyncData(r)
    \/ \E r \in 1..MaxSyncs : ProcessAttempt(r)
    \/ \E r \in 1..MaxSyncs : LogViewAttempt(r)
    \/ \E r \in 1..MaxSyncs : InvalidateAllQuizData(r)
    \/ \E r \in 1..MaxSyncs : RemoveAttemptAndAnswers(r)
    \/ \E r \in 1..MaxSyncs : PrefetchAfterUpdate(r)
    \/ \E r \in 1..MaxSyncs : SetSyncTime(r)
    \/ \E r \in 1..MaxSyncs : CheckAttemptFinished(r)
    \/ \E r \in 1..MaxSyncs : StepFails(r)

SpecAll == InitAll /\ [][NextAll]_vars

\* ====================================================== best-effort steps
\* one sync started by the first syncQuiz call, in which each best-effort call
\* resolves or rejects
NextIgnore ==
    \/ \E q \in Quizzes : CreateOfflineAttempt(q)
    \/ \E q \in Quizzes : FirstSyncQuiz(q)
    \/ \E ok \in BOOLEAN : SyncActivityAwaited(1, ok)
    \/ GetQuizAttempts(1)
    \/ GetUserAttempts(1)
    \/ GetAttemptAnswers(1)
    \/ GetQuizAccessInformation(1)
    \/ GetPreflightData(1)
    \/ GetAllQuestionsData(1)
    \/ \E s \in Slots : RemoveQuestionAndAnswers(1, s)
    \/ PrepareSyncData(1)
    \/ ProcessAttempt(1)
    \/ \E ok \in BOOLEAN : LogViewAttemptAwaited(1, ok)
    \/ \E ok \in BOOLEAN : InvalidateAllQuizDataAwaited(1, ok)
    \/ RemoveAttemptAndAnswers(1)
    \/ \E ok \in BOOLEAN : PrefetchAfterUpdateAwaited(1, ok)
    \/ \E ok \in BOOLEAN : SetSyncTimeAwaited(1, ok)
    \/ CheckAttemptFinished(1)
    \/ StepFails(1)

SpecIgnore == Init /\ [][NextIgnore]_vars

\* ================================================= the remote system moves
\* The remote system closes an attempt in progress on its own (the time limit
\* ran out, or the learner finished it from another device).
RemoteFinishes(q) ==
    /\ remoteAttempts[q] # Unfetched
    /\ \E i \in 1..Len(remoteAttempts[q]) :
          /\ ~isAttemptFinished(remoteAttempts[q][i].state)
          /\ remoteAttempts' = [remoteAttempts EXCEPT ![q][i].state = "finished"]
    /\ UNCHANGED <<offlineAttempts, offlineAnswers, syncPromises, syncs, calls,
                   created, batch, tasks, hasData, timerVars>>

\* one sync of a quiz whose attempts the remote system may close meanwhile
NextRemote ==
    \/ \E q \in Quizzes : CreateOfflineAttempt(q)
    \/ \E q \in Quizzes : FirstSyncQuiz(q)
    \/ \E q \in Quizzes : RemoteFinishes(q)
    \/ SyncActivity(1)
    \/ GetQuizAttempts(1)
    \/ GetUserAttempts(1)
    \/ GetAttemptAnswers(1)
    \/ GetQuizAccessInformation(1)
    \/ GetPreflightData(1)
    \/ GetAllQuestionsData(1)
    \/ \E s \in Slots : RemoveQuestionAndAnswers(1, s)
    \/ PrepareSyncData(1)
    \/ ProcessAttempt(1)
    \/ LogViewAttempt(1)
    \/ InvalidateAllQuizData(1)
    \/ RemoveAttemptAndAnswers(1)
    \/ PrefetchAfterUpdate(1)
    \/ SetSyncTime(1)
    \/ CheckAttemptFinished(1)
    \/ StepFails(1)

SpecRemote == Init /\ [][NextRemote]_vars

\* ==================================================== sequence-check tokens
\* one sync of an attempt whose stored sequence checks may carry a leading zero
NextTokens ==
    \/ \E q \in Quizzes : RecordOfflineAttempt(q, PaddedTokens)
    \/ \E q \in Quizzes : FirstSyncQuiz(q)
    \/ SyncActivity(1)
    \/ GetQuizAttempts(1)
    \/ GetUserAttempts(1)
    \/ GetAttemptAnswers(1)
    \/ GetQuizAccessInformation(1)
    \/ GetPreflightData(1)
    \/ GetAllQuestionsData(1)
    \/ \E s \in Slots : RemoveQuestionAndAnswers(1, s)
    \/ PrepareSyncData(1)
    \/ ProcessAttempt(1)
    \/ LogViewAttempt(1)
    \/ InvalidateAllQuizData(1)
    \/ RemoveAttemptAndAnswers(1)
    \/ PrefetchAfterUpdate(1)
    \/ SetSyncTime(1)
    \/ CheckAttemptFinished(1)
    \/ StepFails(1)

SpecTokens == Init /\ [][NextTokens]_vars

\* ===================================================== post-sync prefetch
\* one sync, after which the module update check reports any of UpdateResults
\* and any call of the try block may reject
NextPrefetch ==
    \/ \E q \in Quizzes : CreateOfflineAttempt(q)
    \/ \E q \in Quizzes : FirstSyncQuiz(q)
    \/ SyncActivity(1)
    \/ GetQuizAttempts(1)
    \/ GetUserAttempts(1)
    \/ GetAttemptAnswers(1)
    \/ GetQuizAccessInformation(1)
    \/ GetPreflightData(1)
    \/ GetAllQuestionsData(1)
    \/ \E s \in Slots : RemoveQuestionAndAnswers(1, s)
    \/ PrepareSyncData(1)
    \/ ProcessAttempt(1)
    \/ LogViewAttempt(1)
    \/ InvalidateAllQuizData(1)
    \/ RemoveAttemptAndAnswers(1)
    \/ \E failAt \in 0..Len(PrefetchCalls), result \in UpdateResults :
          PrefetchAfterUpdateQuiz(1, failAt, result)
    \/ SetSyncTime(1)
    \/ CheckAttemptFinished(1)
    \/ StepFails(1)

SpecPrefetch == Init /\ [][NextPrefetch]_vars

\* ============================================================== termination
\* the call sync r is waiting for returns or fails
SyncReturns(r) ==
    \/ \E ok \in BOOLEAN : SyncActivityAwaited(r, ok)
    \/ GetQuizAttempts(r)
    \/ GetUserAttempts(r)
    \/ GetAttemptAnswers(r)
    \/ GetQuizAccessInformation(r)
    \/ GetPreflightData(r)
    \/ GetAllQuestionsData(r)
    \/ \E s \in Slots : RemoveQuestionAndAnswers(r, s)
    \/ PrepareSyncData(r)
    \/ ProcessAttempt(r)
    \/ \E ok \in BOOLEAN : LogViewAttemptAwaited(r, ok)
    \/ \E ok \in BOOLEAN : InvalidateAllQuizDataAwaited(r, ok)
    \/ RemoveAttemptAndAnswers(r)
    \/ \E ok \in BOOLEAN : PrefetchAfterUpdateAwaited(r, ok)
    \/ \E ok \in BOOLEAN : SetSyncTimeAwaited(r, ok)
    \/ CheckAttemptFinished(r)
    \/ StepFails(r)

\* one sync, every call of which ends: no call is awaited for ever
SpecLive == Init /\ [][NextIgnore]_vars /\ WF_vars(SyncReturns(1))

\* ====================================================== throttle, debounce
\* what a throttled or debounced function did, in order
TimerEv(op, time) ==
    [op |-> op, time |-> time, id |-> 0, ran |-> FALSE, threw |-> FALSE, args |-> ""]
\* the arguments of a call
Args == {"a", "b"}
\* the calls made so far
CallsOf(log) == {i \in 1..Len(log) : log[i].op = "call"}

\* variant: the timer is due at once
setTimeout_Immediate(time, ms) == time

\* setTimeout(callback, ms): the instant from which the callback may run
setTimeout(time, ms) == time + ms

\* time passes; a timer that is due may still be waiting for its turn
Tick ==
    /\ now < MaxTime
    /\ now' = now + 1
    /\ UNCHANGED <<offlineAttempts, offlineAnswers, remoteAttempts, syncPromises,
                   syncs, calls, created, batch, tasks, hasData, throttled, debounced>>

\* throttled(...args): fn is applied unless shouldWait; fn returns or throws
ThrottledCall(throws) ==
    /\ Cardinality(CallsOf(throttled.log)) < MaxTimerCalls
    /\ throttled' =
          IF throttled.shouldWait
          THEN [throttled EXCEPT !.log = Append(@, TimerEv("call", now))]
          ELSE LET ev == [TimerEv("call", now) EXCEPT !.ran = TRUE, !.threw = throws]
               IN IF throws
                  THEN [throttled EXCEPT !.invoked = @ + 1, !.log = Append(@, ev)]
                  ELSE [throttled EXCEPT !.invoked = @ + 1, !.log = Append(@, ev),
                                         !.shouldWait = TRUE,
                                         !.timer = [NoTimer EXCEPT
                                                       !.due = setTimeout(now, Duration)]]
    /\ UNCHANGED <<offlineAttempts, offlineAnswers, remoteAttempts, syncPromises,
                   syncs, calls, created, batch, tasks, hasData, now, debounced>>

\* the callback of the timer of throttle runs: shouldWait = false
ThrottleTimeout ==
    /\ throttled.timer # NoTimer /\ now >= throttled.timer.due
    /\ throttled' = [throttled EXCEPT !.shouldWait = FALSE, !.timer = NoTimer,
                                      !.log = Append(@, TimerEv("release", now))]
    /\ UNCHANGED <<offlineAttempts, offlineAnswers, remoteAttempts, syncPromises,
                   syncs, calls, created, batch, tasks, hasData, now, debounced>>

\* variant: the pending timer is left alone
clearTimeout_Nothing(timers, id) == timers

\* clearTimeout(timeoutID): the timer of that id, if still pending, never runs
clearTimeout(timers, id) == {t \in timers : t.id # id}

\* debounced(...args): the pending timer is cleared and a new one is set
DebouncedCall(args) ==
    LET id == Cardinality(CallsOf(debounced.log)) + 1
        ev == [TimerEv("call", now) EXCEPT !.id = id, !.args = args]
        timer == [id |-> id, due |-> setTimeout(now, Delay), args |-> args]
    IN /\ id <= MaxTimerCalls
       /\ now + Delay <= MaxTime
       /\ debounced' =
             [timeoutID |-> id,
              timers |-> clearTimeout(debounced.timers, debounced.timeoutID) \cup {timer},
              log |-> Append(debounced.log, ev)]
       /\ UNCHANGED <<offlineAttempts, offlineAnswers, remoteAttempts, syncPromises,
                      syncs, calls, created, batch, tasks, hasData, now, throttled>>

\* the callback of a timer of debounce runs: fn.apply(null, args)
DebounceTimeout ==
    /\ \E t \in debounced.timers :
          /\ now >= t.due
          /\ debounced' =
                [debounced EXCEPT
                    !.timers = @ \ {t},
                    !.log = Append(@, [TimerEv("run", now) EXCEPT
                                          !.id = t.id, !.ran = TRUE, !.args = t.args])]
    /\ UNCHANGED <<offlineAttempts, offlineAnswers, remoteAttempts, syncPromises,
                   syncs, calls, created, batch, tasks, hasData, now, throttled>>

NextDebounce ==
    \/ Tick
    \/ \E args \in Args : DebouncedCall(args)
    \/ DebounceTimeout

\* the event loop runs a timer that is due, and time does not stop
SpecDebounce ==
    Init /\ [][NextDebounce]_vars /\ WF_vars(Tick) /\ WF_vars(DebounceTimeout)

NextThrottle ==
    \/ Tick
    \/ \E throws \in BOOLEAN : ThrottledCall(throws)
    \/ ThrottleTimeout

SpecThrottle == Init /\ [][NextThrottle]_vars

\* ============================================================ hasDataToSync
\* variant: the failure of the store is not caught
hasDataToSyncOutcome_Uncaught(failed, attempts) ==
    [rejected |-> failed, result |-> ~failed /\ Cardinality(attempts) # 0]

\* try { return !!(await getQuizAttempts(quizId, siteId)).length } catch { return false }
hasDataToSyncOutcome(failed, attempts) ==
    IF failed THEN [rejected |-> FALSE, result |-> FALSE]
    ELSE [rejected |-> FALSE, result |-> Cardinality(attempts) # 0]

\* hasDataToSync(quizId, siteId); the read of the store succeeds or fails
HasDataToSync(q) ==
    /\ \E failed \in BOOLEAN :
          LET outcome == hasDataToSyncOutcome(failed, getQuizAttempts(offlineAttempts, q))
          IN hasData' = [quiz |-> q, failed |-> failed,
                         rejected |-> outcome.rejected, result |-> outcome.result]
    /\ UNCHANGED <<offlineAttempts, offlineAnswers, remoteAttempts,
                   syncPromises, syncs, calls, created, batch, tasks, timerVars>>

\* one sync started by the first syncQuiz call, offline attempts recorded
\* before or after it, and hasDataToSync asked at any time
NextHas ==
    \/ \E q \in Quizzes : CreateOfflineAttempt(q)
    \/ \E q \in Quizzes : HasDataToSync(q)
    \/ \E q \in Quizzes : FirstSyncQuiz(q)
    \/ SyncActivity(1)
    \/ GetQuizAttempts(1)
    \/ GetUserAttempts(1)
    \/ GetAttemptAnswers(1)
    \/ GetQuizAccessInformation(1)
    \/ GetPreflightData(1)
    \/ GetAllQuestionsData(1)
    \/ \E s \in Slots : RemoveQuestionAndAnswers(1, s)
    \/ PrepareSyncData(1)
    \/ ProcessAttempt(1)
    \/ LogViewAttempt(1)
    \/ InvalidateAllQuizData(1)
    \/ RemoveAttemptAndAnswers(1)
    \/ PrefetchAfterUpdate(1)
    \/ SetSyncTime(1)
    \/ CheckAttemptFinished(1)
    \/ StepFails(1)

SpecHas == Init /\ [][NextHas]_vars

\* ================================================================ properties
Runs == 1..Len(syncs)
Ops(rec) == {rec.log[i].op : i \in 1..Len(rec.log)}
Events(rec, op) == {i \in 1..Len(rec.log) : rec.log[i].op = op}
Fetched(rec) == "getUserAttempts" \in Ops(rec)
\* the fetched online attempts that carry the identifier of the offline attempt
Matches(rec) ==
    {k \in 1..Len(rec.onlineAttempts) : rec.onlineAttempts[k].id = rec.offlineAttempt.id}
MatchFinished(rec) ==
    \E k \in Matches(rec) : rec.onlineAttempts[k].state \in {"finished", "abandoned"}
StoreHolds(attempts, answers, id) ==
    (\E a \in attempts : a.id = id) \/ answers[id] # NoAnswers

\* C1: a syncQuiz call made while a sync of the same quiz is in flight gets
\* the promise of that sync and starts nothing: at most one sync per quiz is in
\* flight, every sync was started by a call that found none in flight, and a
\* sync submits at most once and removes the offline attempt at most once.
C1_SingleFlight ==
    /\ \A j \in 1..Len(calls) :
          calls[j].inflight # {} =>
             /\ calls[j].error = ""
             /\ calls[j].inflight = {calls[j].promise}
             /\ \E i \in 1..(j - 1) : /\ calls[i].quiz = calls[j].quiz
                                      /\ calls[i].promise = calls[j].promise
    /\ \A q \in Quizzes : Cardinality(InFlight(q)) <= 1
    /\ Len(syncs) = Cardinality({j \in 1..Len(calls) :
                                    calls[j].inflight = {} /\ calls[j].error = ""})
    /\ \A r \in Runs :
          /\ Cardinality(Events(syncs[r], "processAttempt")) <= 1
          /\ Cardinality(Events(syncs[r], "removeAttemptAndAnswers")) <= 1

C1_Witness ==
    \E i, j \in 1..Len(calls) :
        /\ i < j /\ calls[i].quiz = calls[j].quiz
        /\ calls[j].inflight = {calls[i].promise}
        /\ calls[j].promise = calls[i].promise
        /\ syncs[calls[i].promise].status = "resolved"
        /\ "processAttempt" \in Ops(syncs[calls[i].promise])

\* C2: when a sync that found an offline attempt completes successfully, the
\* offline store holds neither that attempt nor answers of it.
C2_OfflineDataRemoved ==
    [][\A r \in Runs :
          (/\ syncs[r].status = "pending"
           /\ syncs'[r].status = "resolved"
           /\ syncs'[r].offlineAttempt # NoAttempt)
          => ~StoreHolds(offlineAttempts', offlineAnswers', syncs'[r].offlineAttempt.id)]_vars

\* C3: the finish flag of a submission is true exactly when the offline attempt
\* was marked finished and no slot was removed by the validation before it.
C3_FinishFlag ==
    \A r \in Runs : \A i \in Events(syncs[r], "processAttempt") :
        syncs[r].log[i].finish =
            (/\ syncs[r].offlineAttempt.finished
             /\ \A k \in 1..(i - 1) : syncs[r].log[k].op # "removeQuestionAndAnswers")

C3_Witness ==
    \E r \in Runs : \E i \in Events(syncs[r], "processAttempt") :
        /\ syncs[r].offlineAttempt.finished
        /\ ~syncs[r].log[i].finish
        /\ \E k \in 1..(i - 1) : syncs[r].log[k].op = "removeQuestionAndAnswers"
        /\ \E s \in Slots : syncs[r].log[i].answers[s] # ""

\* C4: a submission goes to the fetched online attempt that has the offline
\* attempt's identifier and was not finished; when the fetched list has no such
\* attempt, or it is finished, the sync sends neither a submission nor a page
\* position and, when it completes, has removed the offline attempt.
C4_OnlyMatchedUnfinished ==
    \A r \in Runs :
        /\ \A i \in Events(syncs[r], "processAttempt") :
              /\ syncs[r].log[i].id = syncs[r].offlineAttempt.id
              /\ Matches(syncs[r]) # {}
              /\ ~MatchFinished(syncs[r])
        /\ (Fetched(syncs[r]) /\ (Matches(syncs[r]) = {} \/ MatchFinished(syncs[r])))
           => /\ Ops(syncs[r]) \cap {"processAttempt", "logViewAttempt"} = {}
              /\ syncs[r].status = "resolved" =>
                    \E i \in Events(syncs[r], "removeAttemptAndAnswers") :
                        syncs[r].log[i].id = syncs[r].offlineAttempt.id

C4_Witness ==
    \E r \in Runs :
        /\ syncs[r].status = "resolved"
        /\ Fetched(syncs[r])
        /\ Len(syncs[r].onlineAttempts) > 0
        /\ Matches(syncs[r]) = {}
        /\ ~StoreHolds(offlineAttempts, offlineAnswers, syncs[r].offlineAttempt.id)

\* C5: a sync whose matching online attempt was finished when fetched returns
\* exactly one warning and updated = true, and the offline store then holds
\* neither the offline attempt nor answers of it.
C5_FinishedOnlineIsDiscarded ==
    [][\A r \in Runs :
          (/\ syncs[r].status = "pending"
           /\ syncs'[r].status = "resolved"
           /\ Fetched(syncs'[r])
           /\ MatchFinished(syncs'[r]))
          => /\ Len(syncs'[r].result.warnings) = 1
             /\ syncs'[r].result.updated
             /\ ~StoreHolds(offlineAttempts', offlineAnswers', syncs'[r].offlineAttempt.id)]_vars

C5_Witness ==
    \E r \in Runs :
        /\ syncs[r].status = "resolved"
        /\ Fetched(syncs[r])
        /\ MatchFinished(syncs[r])
        /\ syncs[r].result.warnings = <<"warningattemptfinished">>

\* C6: a sync that finds no offline attempt of the quiz in the store fetches no
\* online attempts, submits nothing, removes nothing, does not fail, and returns
\* no warnings, updated = false and attemptFinished = false.
C6_NothingToDo ==
    \A r \in Runs :
        ("getQuizAttempts" \in Ops(syncs[r]) /\ syncs[r].stored = {})
        => /\ Ops(syncs[r]) \cap {"getUserAttempts", "getUserAttemptsAfter",
                                  "processAttempt", "logViewAttempt",
                                  "removeAttemptAndAnswers",
                                  "removeQuestionAndAnswers"} = {}
           /\ syncs[r].status # "rejected"
           /\ syncs[r].status = "resolved" =>
                 /\ syncs[r].result.warnings = <<>>
                 /\ ~syncs[r].result.updated
                 /\ ~syncs[r].result.attemptFinished

C6_Witness ==
    \E r \in Runs :
        /\ "getQuizAttempts" \in Ops(syncs[r]) /\ syncs[r].stored = {}
        /\ syncs[r].status = "resolved"

\* C7: when the store holds an offline attempt of the quiz and the network is
\* unreachable, the sync fails with "cannot connect" in that very step, having
\* made no remote call, and the stores are as they were.
C7_CannotConnect ==
    [][\A r \in Runs :
          (/\ syncs[r].pc = "getQuizAttempts"
           /\ "getQuizAttempts" \in Ops(syncs'[r])
           /\ \E a \in offlineAttempts : a.quizid = syncs[r].quiz
           /\ ~syncs'[r].isOnline)
          => /\ syncs'[r].status = "rejected"
             /\ syncs'[r].error = "cannotconnect"
             /\ Ops(syncs'[r]) \subseteq {"syncActivity", "getQuizAttempts"}
             /\ UNCHANGED <<offlineAttempts, offlineAnswers, remoteAttempts>>]_vars

C7_Witness ==
    \E r \in Runs :
        /\ syncs[r].status = "rejected" /\ syncs[r].error = "cannotconnect"
        /\ \E a \in offlineAttempts :
              a.quizid = syncs[r].quiz /\ offlineAnswers[a.id] # NoAnswers

\* C8: a syncQuiz call for a quiz that has no sync in flight and is locked fails
\* with "sync blocked" at once: no sync is started, nothing is registered and
\* neither the store nor the remote system is touched.
C8_SyncBlocked ==
    [][Len(calls') = Len(calls) + 1 =>
          LET c == calls'[Len(calls')]
          IN (InFlight(c.quiz) = {} /\ c.locked)
             => /\ c.error = "errorsyncblocked"
                /\ c.promise = 0
                /\ UNCHANGED <<syncs, syncPromises, offlineAttempts,
                               offlineAnswers, remoteAttempts>>]_vars

C8_Witness ==
    \E j \in 1..Len(calls) :
        /\ calls[j].error = "errorsyncblocked"
        /\ calls[j].inflight = {} /\ calls[j].locked

\* C9: the registry holds an entry for a quiz exactly while a sync of the quiz
\* started by syncQuiz is in flight, and that entry is this sync; a call made
\* when no sync is in flight and the quiz is not locked starts a new sync
\* instead of getting the promise of an earlier one.
C9_Registry ==
    /\ \A q \in Quizzes : syncPromises[q] # 0 => syncPromises[q] \in InFlight(q)
    /\ \A r \in Runs : syncs[r].status = "pending" => syncPromises[syncs[r].quiz] = r
    /\ \A j \in 1..Len(calls) :
          (calls[j].inflight = {} /\ ~calls[j].locked)
          => /\ calls[j].error = "" /\ calls[j].promise \in Runs
             /\ \A i \in 1..(j - 1) : calls[i].promise # calls[j].promise

C9_Witness ==
    \E i, j \in 1..Len(calls) :
        /\ i < j /\ calls[i].quiz = calls[j].quiz
        /\ calls[i].promise \in Runs /\ calls[j].promise \in Runs
        /\ calls[i].promise # calls[j].promise
        /\ syncs[calls[i].promise].status = "rejected"
        /\ syncs[calls[j].promise].status = "resolved"
        /\ syncPromises[calls[i].quiz] = 0

\* C10: after a sync of a quiz has completed successfully, a following sync of
\* the quiz finds nothing to do unless an offline attempt was recorded in
\* between: it does not find an offline attempt the earlier sync had found, and
\* when it finds none it submits nothing and returns no warnings and
\* updated = false.
C10_Idempotent ==
    \A r1, r2 \in Runs :
        (/\ r1 < r2 /\ syncs[r1].quiz = syncs[r2].quiz
         /\ syncs[r1].status = "resolved"
         /\ "getQuizAttempts" \in Ops(syncs[r2]))
        => /\ syncs[r2].stored \cap syncs[r1].stored = {}
           /\ syncs[r2].stored = {} =>
                 /\ "processAttempt" \notin Ops(syncs[r2])
                 /\ syncs[r2].status = "resolved" =>
                       (syncs[r2].result.warnings = <<>> /\ ~syncs[r2].result.updated)

\* ------------------------------------------------------ syncAllQuizzesFunc
Tasks == 1..Len(tasks)
\* the batch has listed the offline attempts and started its callbacks
Listed == batch.status \in {"running", "resolved", "rejected"}
\* callback t got the promise of a sync from syncQuiz
HasSync(t) == tasks[t].promise # 0
\* the await callback t is suspended at can be resumed
CanResume(t) ==
    \/ ENABLED GetQuizById(t)
    \/ ENABLED IsSyncNeeded(t)
    \/ ENABLED SetSyncWarnings(t)
    \/ ENABLED AwaitSync(t)
    \/ (tasks[t].pc = "awaitSync" /\ syncs[tasks[t].promise].status = "pending")

\* C11: what becomes of the callback of a quiz depends on its own steps only,
\* whatever happened to the other quizzes and to the batch: a pending callback
\* can always go on, a callback is rejected only by a failure of its own (its
\* syncQuiz call, its sync, or a call it awaits), and a callback whose sync
\* returned a result has, once it is over, stored the warnings of that result
\* (if any) and sent the event of that result.
C11_Independent ==
    \A t \in Tasks :
        /\ tasks[t].status = "pending" => CanResume(t)
        /\ tasks[t].status = "rejected" =>
              \/ /\ tasks[t].error = "errorsyncblocked"
                 /\ calls[tasks[t].call].error = "errorsyncblocked"
              \/ /\ HasSync(t) /\ ~tasks[t].defined
                 /\ syncs[tasks[t].promise].status = "rejected"
                 /\ tasks[t].error = syncs[tasks[t].promise].error
              \/ tasks[t].error \in {"failed:getQuizById", "failed:isSyncNeeded",
                                     "failed:setSyncWarnings"}
        /\ (tasks[t].status = "resolved" /\ HasSync(t)) =>
              LET result == syncs[tasks[t].promise].result
              IN /\ syncs[tasks[t].promise].status = "resolved"
                 /\ tasks[t].emitted
                 /\ tasks[t].event = AutoSynced(tasks[t].quiz, result)
                 /\ tasks[t].stored = (Len(result.warnings) > 0)
                 /\ tasks[t].storedWarnings = result.warnings

\* a quiz is synchronised, its warnings stored and its event sent after the
\* failure of another quiz has rejected the batch
C11_Witness ==
    \E t, u \in Tasks :
        /\ tasks[u].status = "rejected" /\ tasks[u].quiz # tasks[t].quiz
        /\ tasks[t].status = "resolved" /\ tasks[t].batchWas = "rejected"
        /\ tasks[t].stored /\ tasks[t].emitted
        /\ syncs[tasks[t].promise].result.updated

\* C12: syncAllQuizzesFunc does not catch the failure of a quiz: as soon as
\* the callback of one quiz is rejected (its syncQuiz call throws, its sync
\* fails, or fetching the quiz or storing its warnings fails) the batch is
\* rejected with that error; the batch resolves only when every callback has
\* resolved, and it is rejected only by a callback or by getAllAttempts.
C12_FirstFailurePropagates ==
    /\ (\E t \in Tasks : tasks[t].status = "rejected") =>
          /\ batch.status = "rejected"
          /\ \E t \in Tasks : tasks[t].status = "rejected" /\ tasks[t].error = batch.error
    /\ batch.status = "resolved" => \A t \in Tasks : tasks[t].status = "resolved"
    /\ batch.status = "rejected" =>
          \/ \E t \in Tasks : tasks[t].status = "rejected"
          \/ tasks = <<>> /\ batch.error = "dberror"

\* the batch is rejected because the network was down for one quiz while the
\* other quiz was synchronised
C12_Witness ==
    /\ batch.status = "rejected" /\ batch.error = "cannotconnect"
    /\ \E t \in Tasks : tasks[t].status = "resolved" /\ tasks[t].emitted

\* C12 as stated: the failure of a quiz is caught, the batch is not rejected
C12_FailuresCaught ==
    \A t \in Tasks : tasks[t].status = "rejected" => batch.status # "rejected"

\* C13: the event of a quiz is sent exactly when the callback of the quiz got
\* a result from its sync, whether or not that sync changed anything, and when
\* storing the warnings of the result (if any) did not fail; it carries the
\* identifier of the quiz and the attemptFinished flag and warnings of that
\* result.  No event is sent for a quiz that was skipped (duplicate record,
\* locked, not stale) or whose callback failed.
C13_EventOnResult ==
    \A t \in Tasks :
        /\ tasks[t].emitted =>
              /\ tasks[t].status = "resolved" /\ HasSync(t)
              /\ syncs[tasks[t].promise].status = "resolved"
              /\ tasks[t].event = AutoSynced(tasks[t].quiz, syncs[tasks[t].promise].result)
        /\ (tasks[t].status = "resolved" /\ HasSync(t)) => tasks[t].emitted
        /\ (tasks[t].skipped # "" \/ tasks[t].status = "rejected") =>
              (~tasks[t].emitted /\ tasks[t].event = NoEvent)

\* an event is sent for a sync that found nothing to do: the offline attempt
\* the batch had listed was removed by an earlier sync before this one looked
C13_Witness ==
    \E t \in Tasks :
        /\ tasks[t].emitted /\ tasks[t].event.quizId = tasks[t].quiz
        /\ ~syncs[tasks[t].promise].result.updated
        /\ syncs[tasks[t].promise].stored = {}

\* C13 as stated: once the callback of a quiz is over, its event has been sent
\* exactly if its sync completed successfully with updated = true
C13_OnlyWhenUpdated ==
    \A t \in Tasks :
        tasks[t].status # "pending" =>
            (tasks[t].emitted <=>
                (/\ HasSync(t)
                 /\ syncs[tasks[t].promise].status = "resolved"
                 /\ syncs[tasks[t].promise].result.updated))

\* the callbacks of quiz q that went past the duplicate check
Treated(q) == {t \in Tasks : tasks[t].quiz = q /\ tasks[t].skipped # "duplicate"}

\* C14: in one batch run syncQuiz is called at most once for a quiz, however
\* many offline attempt records of the quiz the store returned: exactly one
\* callback per listed quiz goes past the duplicate check.  Every quiz with an
\* offline attempt in the store when it is listed is treated, and unless it is
\* locked its quiz record is fetched.
C14_OncePerQuiz ==
    /\ [](\A q \in Quizzes :
            /\ Cardinality({t \in Tasks : tasks[t].quiz = q /\ tasks[t].call # 0}) <= 1
            /\ (\E t \in Tasks : tasks[t].quiz = q) => Cardinality(Treated(q)) = 1)
    /\ [][batch.status = "getAllAttempts" /\ batch'.status \in {"running", "resolved"} =>
            /\ Len(tasks') = Cardinality(offlineAttempts)
            /\ \A a \in offlineAttempts :
                  \E t \in 1..Len(tasks') :
                      /\ tasks'[t].quiz = a.quizid
                      /\ tasks'[t].skipped # "duplicate"
                      /\ ~tasks'[t].blocked =>
                            (tasks'[t].status = "pending" /\ tasks'[t].pc = "getQuizById")]_vars

\* two records of one quiz were listed and the quiz was synchronised once
C14_Witness ==
    \E t, u \in Tasks :
        /\ t # u /\ tasks[t].quiz = tasks[u].quiz
        /\ tasks[u].skipped = "duplicate"
        /\ tasks[t].call # 0 /\ tasks[t].emitted

C16_OnlyIfNeeded ==
    /\ [](\A t \in Tasks :
            tasks[t].asked =>
               /\ tasks[t].needed => tasks[t].call # 0
               /\ ~tasks[t].needed =>
                     /\ tasks[t].skipped = "notneeded" /\ tasks[t].status = "resolved"
                     /\ tasks[t].call = 0 /\ ~HasSync(t) /\ ~tasks[t].defined)
    /\ [][\A t \in Tasks :
            (~tasks[t].asked /\ tasks'[t].asked /\ ~tasks'[t].needed) =>
                UNCHANGED <<offlineAttempts, offlineAnswers, remoteAttempts,
                            syncPromises, syncs, calls>>]_vars

\* one quiz was not stale and was left alone, the other was stale and was
\* synchronised
C16_Witness ==
    \E t, u \in Tasks :
        /\ tasks[t].asked /\ ~tasks[t].needed /\ tasks[t].status = "resolved"
        /\ tasks[u].asked /\ tasks[u].needed /\ tasks[u].defined
        /\ "setSyncTime" \in Ops(syncs[tasks[u].promise])

\* callback t has not gone past the fetch of the quiz record
Fetching(t) ==
    \/ tasks[t].skipped \in {"blocked", "duplicate"}
    \/ tasks[t].pc = "getQuizById"
    \/ tasks[t].error = "failed:getQuizById"

\* C17: with force = true isSyncNeeded is never consulted and syncQuiz is
\* called for every quiz that was not locked once its quiz record is fetched;
\* with force = false syncQuiz is called only after isSyncNeeded answered that
\* a sync is needed.  For a quiz skipped as not stale no warnings are stored
\* and no event is sent.
C17_Force ==
    \A t \in Tasks :
        /\ batch.force => (~tasks[t].asked /\ (~Fetching(t) => tasks[t].call # 0))
        /\ ~batch.force => (tasks[t].call # 0 => (tasks[t].asked /\ tasks[t].needed))
        /\ tasks[t].skipped = "notneeded" =>
              /\ ~batch.force /\ tasks[t].status = "resolved"
              /\ ~tasks[t].stored /\ tasks[t].storedWarnings = <<>>
              /\ ~tasks[t].emitted /\ tasks[t].event = NoEvent

\* a forced batch synchronised a quiz without asking whether it was stale
C17_Witness ==
    /\ batch.force
    /\ \E t \in Tasks : ~tasks[t].asked /\ tasks[t].defined /\ tasks[t].emitted

\* C18: hasDataToSync answers true exactly when its read of the offline store
\* succeeds and lists at least one offline attempt of the quiz; it never
\* fails: when the read fails it answers false; it changes nothing.
C18_HasDataToSync ==
    /\ [](~hasData.rejected /\ (hasData.failed => ~hasData.result))
    /\ [][hasData' # hasData =>
            /\ hasData'.result =
                  (~hasData'.failed /\ \E a \in offlineAttempts : a.quizid = hasData'.quiz)
            /\ UNCHANGED <<offlineAttempts, offlineAnswers, remoteAttempts,
                           syncPromises, syncs, calls, created, batch, tasks>>]_vars

\* the read of the store failed although an offline attempt of the quiz is
\* stored: the answer is false
C18_Witness ==
    /\ hasData.failed /\ ~hasData.result /\ ~hasData.rejected
    /\ \E a \in offlineAttempts : a.quizid = hasData.quiz

\* ------------------------------------------------------- outcome of a sync
\* nothing to do: no offline attempt was found, nothing was sent or removed
NothingDone(rec) ==
    /\ rec.stored = {}
    /\ Ops(rec) \cap {"processAttempt", "removeAttemptAndAnswers",
                      "removeQuestionAndAnswers"} = {}
    /\ rec.result = NoResult

\* the offline attempt was discarded as a whole: nothing was sent, no slot was
\* validated, its removal was asked for, and the result says updated
Discarded(rec) ==
    /\ rec.stored # {}
    /\ Ops(rec) \cap {"processAttempt", "removeQuestionAndAnswers"} = {}
    /\ Cardinality(Events(rec, "removeAttemptAndAnswers")) = 1
    /\ rec.result.updated /\ ~rec.result.attemptFinished
    /\ IF Matches(rec) = {} \/ MatchFinished(rec)
       THEN rec.result.warnings = <<"warningattemptfinished">>
       ELSE /\ "getAttemptAnswers" \in Ops(rec)
            /\ rec.offlineQuestions = NoAnswers
            /\ rec.result.warnings = <<>>

\* the offline attempt was merged: one submission to the matched attempt, which
\* was not finished, followed by the removal of the offline attempt
Merged(rec) ==
    /\ rec.stored # {}
    /\ Matches(rec) # {} /\ ~MatchFinished(rec)
    /\ Cardinality(Events(rec, "processAttempt")) = 1
    /\ Cardinality(Events(rec, "removeAttemptAndAnswers")) = 1
    /\ \A i \in Events(rec, "processAttempt"), j \in Events(rec, "removeAttemptAndAnswers") :
          i < j
    /\ \A i \in Events(rec, "processAttempt"), j \in Events(rec, "removeQuestionAndAnswers") :
          j < i
    /\ rec.result.updated

BestEffortOps ==
    {"syncActivity", "logViewAttempt", "invalidateAllQuizData",
     "prefetchAfterUpdateQuiz", "setSyncTime"}
\* the best-effort calls of the sync that rejected
IgnoredOps(rec) == {op \in BestEffortOps : ("ignored:" \o op) \in Ops(rec)}
\* a required call of the sync rejected
RequiredFailed(rec) == \E pc \in RequiredSteps : ("failed:" \o pc) \in Ops(rec)

\* the warnings a sync returns, from what it found and removed
WarningsOf(rec) ==
    IF rec.stored = {} THEN <<>>
    ELSE IF Matches(rec) = {} \/ MatchFinished(rec) THEN <<"warningattemptfinished">>
    ELSE IF "removeQuestionAndAnswers" \notin Ops(rec) THEN <<>>
    ELSE IF rec.offlineAttempt.finished THEN <<"warningdatadiscardedfromfinished">>
    ELSE <<"warningdatadiscarded">>

\* C20: the rejection of a best-effort call (offline log sync, page-view
\* replay, cache invalidation, post-update prefetch, recording the sync time)
\* never rejects the sync: a sync is rejected only when a required call
\* rejected or the device is offline, and the warnings and the updated flag of
\* a sync that resolves are those that what it found in the stores and on the
\* remote system determines, whichever best-effort calls rejected.
C20_BestEffort ==
    \A r \in Runs :
        /\ syncs[r].status = "rejected" =>
              (RequiredFailed(syncs[r]) \/ syncs[r].error = "cannotconnect")
        /\ syncs[r].status = "resolved" =>
              /\ ~RequiredFailed(syncs[r])
              /\ syncs[r].result.warnings = WarningsOf(syncs[r])
              /\ syncs[r].result.updated = (syncs[r].stored # {})

\* every best-effort call of a sync rejected and the sync resolved, having
\* sent the offline answers
C20_Witness ==
    \E r \in Runs :
        /\ syncs[r].status = "resolved"
        /\ IgnoredOps(syncs[r]) = BestEffortOps
        /\ syncs[r].result.updated /\ syncs[r].result.warnings # <<>>

\* --------------------------------------------------------- required steps
\* the positions in the log of the sync at which a required call rejected
Failures(rec) ==
    {i \in 1..Len(rec.log) : \E pc \in RequiredSteps : rec.log[i].op = "failed:" \o pc}

\* C21: when a required call of a sync rejects (listing the offline attempts,
\* fetching the online attempts, reading the offline answers, the access
\* information, the preflight data, the online questions, the submission, and
\* also a removal or the final look at the attempts), the sync is rejected with
\* that error and returns no result, and nothing of the sync runs afterwards:
\* the rejected call is the last thing it did, except that the removals of
\* other slots that validateQuestions had already started still end.
C21_RequiredFails ==
    \A r \in Runs :
        \A i \in Failures(syncs[r]) :
            /\ syncs[r].status = "rejected" /\ syncs[r].error = "wserror"
            /\ syncs[r].result = NoResult
            /\ Cardinality(Failures(syncs[r])) = 1
            /\ \A j \in (i + 1)..Len(syncs[r].log) :
                  /\ syncs[r].log[i].op = "failed:validateQuestions"
                  /\ syncs[r].log[j].op = "removeQuestionAndAnswers"

\* the submission was rejected: the sync is rejected, and the offline attempt
\* it found is still stored
C21_Witness ==
    \E r \in Runs :
        /\ syncs[r].log # <<>>
        /\ syncs[r].log[Len(syncs[r].log)].op = "failed:processAttempt"
        /\ syncs[r].status = "rejected"
        /\ syncs[r].stored \subseteq offlineAttempts /\ syncs[r].stored # {}

\* ------------------------------------------------------------ the result
\* the sync sent offline answers to the remote system
Transmitted(rec) == "processAttempt" \in Ops(rec)
\* the sync asked the offline store to remove the attempt it had found
Deleted(rec) ==
    \E i \in Events(rec, "removeAttemptAndAnswers") : rec.log[i].id = rec.offlineAttempt.id
\* the sync found the offline attempt in progress online and no answers of it
EmptyAnswers(rec) ==
    /\ "getAttemptAnswers" \in Ops(rec)
    /\ "getQuizAccessInformation" \notin Ops(rec)
    /\ rec.pc # "getQuizAccessInformation"
    /\ "failed:getAttemptAnswers" \notin Ops(rec)

\* C22: the updated flag of the result of a sync is true exactly when the sync
\* sent offline answers or removed the offline attempt it found (false when it
\* found nothing to do).
C22_UpdatedIffChanged ==
    \A r \in Runs :
        syncs[r].status = "resolved" =>
            (syncs[r].result.updated <=> (Transmitted(syncs[r]) \/ Deleted(syncs[r])))

\* C26: a sync that finds the offline attempt in progress online and no answers
\* stored for it removes that offline attempt, submits nothing, sends no page
\* view and returns no warnings.
C26_EmptyAnswers ==
    \A r \in Runs :
        (syncs[r].status = "resolved" /\ EmptyAnswers(syncs[r])) =>
            /\ Deleted(syncs[r])
            /\ syncs[r].stored \cap offlineAttempts = {}
            /\ Ops(syncs[r]) \cap {"processAttempt", "logViewAttempt"} = {}
            /\ syncs[r].result.warnings = <<>>

\* the sync submitted the offline answers with the finish flag set
SubmittedFinish(rec) ==
    \E i \in Events(rec, "processAttempt") : rec.log[i].finish

\* C23: the attemptFinished flag of the result of a sync is true exactly when
\* the online attempt matched was in progress when the sync fetched it and the
\* sync submitted the answers with the finish flag set; it is false when the
\* sync found nothing to do, discarded the attempt or submitted nothing.
C23_FinishedBySync ==
    \A r \in Runs :
        syncs[r].status = "resolved" =>
            (syncs[r].result.attemptFinished <=>
                (/\ Matches(syncs[r]) # {} /\ ~MatchFinished(syncs[r])
                 /\ SubmittedFinish(syncs[r])))

\* ------------------------------------------------------ validateQuestions
\* the slots the sync read offline answers of
Answered(rec) == {s \in Slots : rec.answersList[s] # ""}
\* the slots whose offline data the sync removed
Removed(rec) == {rec.log[i].slot : i \in Events(rec, "removeQuestionAndAnswers")}
\* the remote system has no question for the slot, or one whose sequence
\* check differs from the one stored offline
Stale(rec, s) ==
    \/ rec.onlineQuestions[s] = 0
    \/ ~validateSequenceCheck(rec.onlineQuestions[s], rec.answersList[s])

\* C24: once the validation of a sync is over, the slots whose offline data it
\* removed are exactly the answered slots for which the remote system returned
\* no question or a different sequence check; the answers of these slots are
\* gone from the offline store and are not in what the sync submits, and the
\* answer of every other answered slot is submitted.
C24_SlotValidation ==
    \A r \in Runs :
        "prepareSyncData" \in Ops(syncs[r]) =>
            /\ Removed(syncs[r]) = {s \in Answered(syncs[r]) : Stale(syncs[r], s)}
            /\ \A s \in Removed(syncs[r]) :
                  offlineAnswers[syncs[r].offlineAttempt.id][s] = ""
            /\ \A i \in Events(syncs[r], "processAttempt") : \A s \in Slots :
                  (syncs[r].log[i].answers[s] # "") <=>
                      (s \in Answered(syncs[r]) \ Removed(syncs[r]))

\* a sync submitted the answer of one slot after it removed the answer of the
\* other, whose sequence check differed from the online one
C24_Witness ==
    \E r \in Runs : \E s, t \in Slots :
        /\ Transmitted(syncs[r])
        /\ Answered(syncs[r]) = {s, t} /\ Removed(syncs[r]) = {s} /\ s # t
        /\ syncs[r].onlineQuestions[s] # 0

\* C25: the sequence check submitted for a slot is the decimal rendering of the
\* sequence check the remote system returned for the question of that slot,
\* whatever the token stored offline was.
C25_OnlineToken ==
    \A r \in Runs : \A i \in Events(syncs[r], "processAttempt") : \A s \in Slots :
        syncs[r].log[i].answers[s] # "" =>
            /\ syncs[r].onlineQuestions[s] # 0
            /\ syncs[r].log[i].answers[s] = String(syncs[r].onlineQuestions[s])

\* a slot stored offline with a sequence check written "01" passed the
\* validation and was submitted with the online value "1"
C25_Witness ==
    \E r \in Runs : \E i \in Events(syncs[r], "processAttempt") : \E s \in Slots :
        /\ syncs[r].answersList[s] = "01"
        /\ syncs[r].onlineQuestions[s] = 1
        /\ syncs[r].log[i].answers[s] = "1"

\* C27: a sync that submits carries exactly one warning when the validation
\* removed the data of at least one slot, however many, and none otherwise; the
\* warning is the "discarded from finished" one exactly when the offline
\* attempt was marked finished; when the attempt was marked finished and every
\* slot was valid the submission has finish = true and there is no warning.
\* The result of the sync returns these warnings.
C27_DiscardWarning ==
    \A r \in Runs : \A i \in Events(syncs[r], "processAttempt") :
        LET rec == syncs[r]
            n == Cardinality(Removed(rec))
        IN /\ Len(rec.warnings) = IF n >= 1 THEN 1 ELSE 0
           /\ n >= 1 =>
                 rec.warnings[1] = IF rec.offlineAttempt.finished
                                   THEN "warningdatadiscardedfromfinished"
                                   ELSE "warningdatadiscarded"
           /\ (rec.offlineAttempt.finished /\ n = 0) =>
                 (rec.log[i].finish /\ rec.warnings = <<>>)
           /\ rec.status = "resolved" => rec.result.warnings = rec.warnings

\* the validation removed the data of both slots of an attempt marked
\* finished, and the sync returned one warning
C27_Witness ==
    \E r \in Runs :
        /\ syncs[r].status = "resolved" /\ Transmitted(syncs[r])
        /\ Cardinality(Removed(syncs[r])) = 2
        /\ syncs[r].offlineAttempt.finished
        /\ syncs[r].result.warnings = <<"warningdatadiscardedfromfinished">>

\* the page-position calls of the sync, whether they resolved or rejected
PageViews(rec) ==
    Events(rec, "logViewAttempt") \cup Events(rec, "ignored:logViewAttempt")

\* C28: a sync sends the page position (logViewAttempt) only right after its
\* submission resolved with finish = false, so before the removal of the
\* offline attempt, and at most once; once such a submission has resolved and
\* the sync has gone on to finishSync, the page position has been sent; a sync
\* that submitted with finish = true, or did not submit, never sends it.
C28_LogViewAttempt ==
    \A r \in Runs :
        LET rec == syncs[r]
        IN /\ Cardinality(PageViews(rec)) <= 1
           /\ \A j \in PageViews(rec) :
                 /\ j > 1 /\ rec.log[j - 1].op = "processAttempt"
                 /\ ~rec.log[j - 1].finish
                 /\ \A k \in Events(rec, "removeAttemptAndAnswers") : j < k
           /\ \A i \in Events(rec, "processAttempt") :
                 (~rec.log[i].finish /\ rec.pc # "logViewAttempt")
                     => (i + 1) \in PageViews(rec)

\* the answers were submitted with finish = false, the page position was sent
\* next, and the offline attempt was removed after that
C28_Witness ==
    \E r \in Runs : \E i \in Events(syncs[r], "processAttempt") :
        /\ ~syncs[r].log[i].finish
        /\ (i + 1) \in Events(syncs[r], "logViewAttempt")
        /\ \E k \in Events(syncs[r], "removeAttemptAndAnswers") : k > i + 1

\* ------------------------------------------------------------- ordering
\* the calls of a sync in the order performSyncQuiz and finishSync make them
StepOrder ==
    <<"syncActivity", "getQuizAttempts", "getUserAttempts", "getAttemptAnswers",
      "getQuizAccessInformation", "getPreflightData", "getAllQuestionsData",
      "removeQuestionAndAnswers", "prepareSyncData", "processAttempt",
      "logViewAttempt", "invalidateAllQuizData", "removeAttemptAndAnswers",
      "prefetchAfterUpdateQuiz", "setSyncTime", "getUserAttemptsAfter">>
\* the place of a call in that order (0: not a call of the list)
Rank(op) ==
    IF \E k \in 1..Len(StepOrder) : StepOrder[k] = op
    THEN CHOOSE k \in 1..Len(StepOrder) : StepOrder[k] = op
    ELSE 0
\* the calls that go to the remote quiz service
RemoteOps ==
    {"getUserAttempts", "getQuizAccessInformation", "getAllQuestionsData",
     "processAttempt", "logViewAttempt", "prefetchAfterUpdateQuiz",
     "getUserAttemptsAfter"}
Ranked(ev) == Rank(ev.op) # 0
\* the places of the listed calls of a sync, in the order it made them
Ranks(rec) ==
    LET made == SelectSeq(rec.log, Ranked)
    IN [k \in 1..Len(made) |-> Rank(made[k].op)]
\* every event a of the log is before every event b
Before(rec, a, b) == \A i \in Events(rec, a), j \in Events(rec, b) : i < j

\* C29: the calls of one sync are made one after the other in the order of
\* performSyncQuiz and finishSync, each one made once (only the removals of the
\* invalid slots, started together by validateQuestions, share a place): every
\* call to the remote quiz service comes after the offline read that found the
\* attempt with the network reachable, every removal of a slot has ended before
\* the submission is sent, the submission comes before the removal of the
\* offline attempt, and the sync time is recorded after that removal.  (The
\* best-effort sync of the offline logs is first in that order, before the
\* network check.)
C29_StepOrder ==
    \A r \in Runs :
        LET rec == syncs[r]
            ranks == Ranks(rec)
        IN /\ \A k \in 1..(Len(ranks) - 1) :
                 \/ ranks[k] < ranks[k + 1]
                 \/ ranks[k] = ranks[k + 1] /\ ranks[k] = Rank("removeQuestionAndAnswers")
           /\ \A j \in 1..Len(rec.log) :
                 rec.log[j].op \in RemoteOps =>
                     /\ \E i \in Events(rec, "getQuizAttempts") : i < j
                     /\ rec.offlineAttempt # NoAttempt /\ rec.isOnline
           /\ Transmitted(rec) => rec.pending = {}
           /\ Before(rec, "removeQuestionAndAnswers", "processAttempt")
           /\ Before(rec, "processAttempt", "removeAttemptAndAnswers")
           /\ Before(rec, "removeAttemptAndAnswers", "setSyncTime")

\* a sync removed a slot, submitted the rest, removed the offline attempt and
\* recorded the sync time
C29_Witness ==
    \E r \in Runs :
        /\ syncs[r].status = "resolved"
        /\ {"removeQuestionAndAnswers", "processAttempt",
            "removeAttemptAndAnswers", "setSyncTime"} \subseteq Ops(syncs[r])

\* ------------------------------------------------------- different quizzes
\* a step of sync r, whichever it is
SyncStep(r) ==
    \/ SyncActivity(r) \/ GetQuizAttempts(r) \/ GetUserAttempts(r)
    \/ GetAttemptAnswers(r) \/ GetQuizAccessInformation(r) \/ GetPreflightData(r)
    \/ GetAllQuestionsData(r) \/ \E s \in Slots : RemoveQuestionAndAnswers(r, s)
    \/ PrepareSyncData(r) \/ ProcessAttempt(r) \/ LogViewAttempt(r)
    \/ InvalidateAllQuizData(r) \/ RemoveAttemptAndAnswers(r)
    \/ PrefetchAfterUpdate(r) \/ SetSyncTime(r) \/ CheckAttemptFinished(r)
\* the attempts of the other quizzes
ForeignIds(q) == AllAttemptIds \ AttemptIdsOf(q)

\* what holds of the calls and syncs in every state
C30_Keyed ==
    /\ \A j \in 1..Len(calls) :
          /\ calls[j].promise # 0 => syncs[calls[j].promise].quiz = calls[j].quiz
          /\ calls[j].error = "errorsyncblocked" => calls[j].locked
          /\ (calls[j].inflight = {} /\ ~calls[j].locked) =>
                /\ calls[j].error = "" /\ calls[j].promise # 0
                /\ \A i \in 1..(j - 1) : calls[i].promise # calls[j].promise
    /\ \A r \in Runs :
          /\ \A i \in 1..Len(syncs[r].log) :
                syncs[r].log[i].id \in AttemptIdsOf(syncs[r].quiz) \cup {0}
          /\ syncs[r].stored \subseteq {a \in BatchAttempts : a.quizid = syncs[r].quiz}
          /\ Running(r) => ENABLED SyncStep(r)

\* what a step of sync r leaves alone
C30_OwnData(r) ==
    (r \in Runs /\ Len(syncs'[r].log) > Len(syncs[r].log)) =>
        /\ \A a \in ForeignIds(syncs[r].quiz) : offlineAnswers'[a] = offlineAnswers[a]
        /\ \A a \in offlineAttempts \ offlineAttempts' : a.quizid = syncs[r].quiz
        /\ \A q \in Quizzes \ {syncs[r].quiz} :
              /\ remoteAttempts'[q] = remoteAttempts[q]
              /\ syncPromises'[q] = syncPromises[q]

\* C30: syncs of different quizzes of the site proceed independently: a
\* syncQuiz call gets only the promise of a sync of its own quiz and fails as
\* blocked only when its own quiz is locked; a call for a quiz that has no sync
\* in flight and is not locked starts a new sync, whatever syncs of other
\* quizzes are in flight; a sync in flight can always take its next step; and
\* every step of a sync reads, submits and removes only attempts of its own
\* quiz, leaving the stored answers, the stored attempts, the remote attempts
\* and the registry entry of every other quiz as they were.
C30_Independent ==
    []C30_Keyed /\ [][\A r \in 1..MaxSyncs : C30_OwnData(r)]_vars

\* the sync of one quiz has submitted its answers and removed its offline
\* attempt while the sync of another quiz, which found its own attempt, is
\* still in flight with that attempt in the store
C30_Witness ==
    \E r1, r2 \in Runs :
        /\ syncs[r1].quiz # syncs[r2].quiz
        /\ Transmitted(syncs[r1]) /\ Deleted(syncs[r1])
        /\ Running(r2) /\ syncs[r2].stored # {}
        /\ syncs[r2].stored \subseteq offlineAttempts

\* -------------------------------------------------------------- termination
\* sync r has settled and its quiz has no registry entry
Completed(r) ==
    /\ r \in Runs /\ syncs[r].status \in {"resolved", "rejected"}
    /\ syncPromises[syncs[r].quiz] = 0

\* C31: when every call a sync awaits returns or fails, a sync that was started
\* settles (resolved, or rejected with an error), and from then on its quiz is
\* not registered as in flight.
C31_Completes == Running(1) ~> Completed(1)

\* the sync found an offline attempt, submitted it, resolved, and its quiz is
\* not registered any more
C31_Witness ==
    /\ Completed(1) /\ syncs[1].status = "resolved"
    /\ Transmitted(syncs[1])

\* ------------------------------------------------------ rejected submission
\* the submission of the sync was rejected
SubmissionRejected(rec) == "failed:processAttempt" \in Ops(rec)
\* the slots that passed the validation of the sync
Kept(rec) == Answered(rec) \ Removed(rec)

\* a removal that validateQuestions had started went on after the sync was
\* rejected by the failure of another removal
Orphaned(rec) ==
    /\ "failed:validateQuestions" \in Ops(rec)
    /\ \/ rec.pending # {}
       \/ rec.log[Len(rec.log)].op = "removeQuestionAndAnswers"
\* no other sync left such a removal behind
Undisturbed(r) == \A r0 \in Runs \ {r} : ~Orphaned(syncs[r0])

SyncTimes(rec) == Events(rec, "setSyncTime") \cup Events(rec, "ignored:setSyncTime")

\* C33: a sync that completes successfully (nothing to do, discard, no
\* answers, submission) has called setSyncTime once, as a best-effort call; a
\* syncQuiz call that fails as blocked starts no sync, and a sync that fails
\* because the network is unreachable or a required call was rejected has not
\* called it, with one exception: the attempt lookup that ends finishSync
\* comes after it, so a sync rejected by that lookup has recorded the time.
C33_SyncTime ==
    /\ \A j \in 1..Len(calls) : calls[j].error = "errorsyncblocked" => calls[j].promise = 0
    /\ \A r \in Runs :
          /\ syncs[r].status = "resolved" => Cardinality(SyncTimes(syncs[r])) = 1
          /\ syncs[r].error = "cannotconnect" => SyncTimes(syncs[r]) = {}
          /\ (syncs[r].status = "rejected" /\ SyncTimes(syncs[r]) # {}) =>
                /\ Cardinality(SyncTimes(syncs[r])) = 1
                /\ syncs[r].log[Len(syncs[r].log)].op = "failed:checkFinished"
          /\ syncs[r].status = "rejected" =>
                \/ syncs[r].error = "cannotconnect"
                \/ RequiredFailed(syncs[r])

\* a sync that found nothing to do recorded the sync time and resolved with
\* updated = false
C33_Witness ==
    \E r \in Runs :
        /\ syncs[r].status = "resolved" /\ syncs[r].stored = {}
        /\ Events(syncs[r], "setSyncTime") # {}
        /\ ~syncs[r].result.updated

\* C33 as stated: the sync time is recorded by every sync that completes
\* successfully and by no sync that fails
C33_NeverOnFailure ==
    \A r \in Runs :
        /\ syncs[r].status = "resolved" => SyncTimes(syncs[r]) # {}
        /\ syncs[r].status = "rejected" => SyncTimes(syncs[r]) = {}

\* C34: a sync that finds no offline attempt of the quiz never fails with
\* "cannot connect": whether or not the network is reachable it records the
\* sync time and resolves with no warnings, updated = false and
\* attemptFinished = false; only a sync that found an offline attempt fails
\* with "cannot connect".
C34_CheckAfterAttempt ==
    \A r \in Runs :
        /\ syncs[r].error = "cannotconnect" =>
              (syncs[r].stored # {} /\ syncs[r].offlineAttempt # NoAttempt)
        /\ ("getQuizAttempts" \in Ops(syncs[r]) /\ syncs[r].stored = {}) =>
              /\ syncs[r].status # "rejected"
              /\ syncs[r].status = "resolved" =>
                    /\ syncs[r].result = NoResult
                    /\ Events(syncs[r], "setSyncTime") # {}

\* with the network unreachable, a sync that found no offline attempt
\* recorded the sync time and resolved
C34_Witness ==
    \E r \in Runs :
        /\ syncs[r].status = "resolved" /\ syncs[r].stored = {}
        /\ ~syncs[r].isOnline
        /\ Events(syncs[r], "setSyncTime") # {}

\* C35: a syncQuiz call made while a sync of the quiz is in flight and the quiz
\* is locked gets the promise of that sync: it does not fail with "sync
\* blocked" and starts nothing.
C35_JoinBeforeLock ==
    /\ \A j \in 1..Len(calls) :
          (calls[j].inflight # {} /\ calls[j].locked) =>
              /\ calls[j].error # "errorsyncblocked"
              /\ calls[j].promise \in calls[j].inflight
    /\ \A j \in 1..Len(calls) :
          calls[j].error = "errorsyncblocked" => calls[j].inflight = {}

\* the second call for the quiz found a sync in flight and the quiz locked,
\* and got the promise of the sync the first call had started
C35_Witness ==
    \E i, j \in 1..Len(calls) :
        /\ i < j /\ calls[i].quiz = calls[j].quiz
        /\ ~calls[i].locked /\ calls[i].inflight = {}
        /\ calls[j].locked /\ calls[j].inflight = {calls[i].promise}
        /\ calls[j].promise = calls[i].promise /\ calls[j].error = ""

\* the validation of the sync is over and removed every answered slot
AllDiscarded(rec) ==
    /\ "prepareSyncData" \in Ops(rec)
    /\ Answered(rec) # {} /\ Removed(rec) = Answered(rec)

\* C36: a sync whose validation removed every answered slot still submits,
\* once, with no answers and finish = false; the page position is sent right
\* after the submission, and the sync returns updated = true and one discard
\* warning.
C36_AllDiscarded ==
    \A r \in Runs :
        AllDiscarded(syncs[r]) =>
            LET rec == syncs[r]
            IN /\ Cardinality(Events(rec, "processAttempt")) <= 1
               /\ \A i \in Events(rec, "processAttempt") :
                     /\ rec.log[i].answers = NoAnswers
                     /\ ~rec.log[i].finish
                     /\ i < Len(rec.log) => rec.log[i + 1].op = "logViewAttempt"
               /\ rec.status = "resolved" =>
                     /\ Cardinality(Events(rec, "processAttempt")) = 1
                     /\ Events(rec, "logViewAttempt") # {}
                     /\ rec.result.updated
                     /\ Len(rec.result.warnings) = 1
                     /\ rec.result.warnings[1] \in {"warningdatadiscarded",
                                                    "warningdatadiscardedfromfinished"}

\* both slots of an attempt marked finished were removed by the validation;
\* the sync submitted nothing with finish = false, sent the page position and
\* resolved
C36_Witness ==
    \E r \in Runs :
        /\ AllDiscarded(syncs[r]) /\ Answered(syncs[r]) = Slots
        /\ syncs[r].offlineAttempt.finished
        /\ syncs[r].status = "resolved"
        /\ \E i \in Events(syncs[r], "processAttempt") :
              syncs[r].log[i].answers = NoAnswers /\ ~syncs[r].log[i].finish

\* ------------------------------------------------------------------ throttle
\* call i of the throttled function applied fn and fn returned
Executed(log, i) == log[i].op = "call" /\ log[i].ran /\ ~log[i].threw
\* the timer started by call j has run before event i
Released(log, j, i) == \E k \in (j + 1)..(i - 1) : log[k].op = "release"

\* what the code keeps: a call of the throttled function applies fn, at once,
\* exactly when no earlier call that applied fn and returned is still waiting
\* for its timer;
\* that timer runs no sooner than duration after the call, so a call made less
\* than duration after such a call is dropped; a dropped call is never run
\* later (fn was applied once per executed call), and the first call made
\* after the timer has run applies fn again.
Throttle_ByTheFlag ==
    LET log == throttled.log
    IN /\ \A i \in CallsOf(log) :
             log[i].ran <=> ~\E j \in 1..(i - 1) : Executed(log, j) /\ ~Released(log, j, i)
       /\ \A k \in 1..Len(log) :
             log[k].op = "release" =>
                 \E j \in 1..(k - 1) :
                     /\ Executed(log, j) /\ ~Released(log, j, k)
                     /\ log[k].time >= log[j].time + Duration
       /\ \A i, j \in CallsOf(log) :
             (j < i /\ Executed(log, j) /\ log[i].time < log[j].time + Duration)
                 => ~log[i].ran
       /\ throttled.invoked = Cardinality({i \in CallsOf(log) : log[i].ran})
       /\ throttled.shouldWait <=> throttled.timer # NoTimer

\* a call ran fn, a call made inside the window was dropped, and a call made
\* after the timer had run ran fn again
Throttle_Reopens ==
    LET log == throttled.log
    IN \E i, j, k \in CallsOf(log) :
          /\ i < j /\ j < k
          /\ Executed(log, i) /\ ~log[j].ran /\ log[k].ran
          /\ Released(log, i, k)

\* C37: a call of the throttled function applies fn exactly when no call that
\* applied fn happened within the preceding duration: a call made less than
\* duration after an executed call is dropped, a call made more than duration
\* after every executed call applies fn (the instant at which the window ends
\* is left open).
C37_ByTheClock ==
    LET log == throttled.log
    IN \A i \in CallsOf(log) :
          /\ (\E j \in CallsOf(log) :
                 j < i /\ log[j].ran /\ log[i].time - log[j].time < Duration)
                => ~log[i].ran
          /\ (\A j \in CallsOf(log) :
                 (j < i /\ log[j].ran) => log[i].time - log[j].time > Duration)
                => log[i].ran

\* ------------------------------------------------------------------ debounce
\* the last call of the debounced function made before event k (0: none)
LastCall(log, k) ==
    IF \E i \in 1..(k - 1) : log[i].op = "call"
    THEN CHOOSE i \in 1..(k - 1) :
            log[i].op = "call" /\ \A j \in (i + 1)..(k - 1) : log[j].op # "call"
    ELSE 0

\* fn is applied only by the timer of the most recent call, once, no sooner
\* than delay after that call and with its arguments; a call followed by
\* another less than delay later is never run; at most the timer of the most
\* recent call is pending, and when none is pending the last call has run
DebounceSafe ==
    LET log == debounced.log
    IN /\ \A k \in 1..Len(log) :
             log[k].op = "run" =>
                 LET c == LastCall(log, k)
                 IN /\ c # 0
                    /\ log[k].id = log[c].id
                    /\ log[k].args = log[c].args
                    /\ log[k].time >= log[c].time + Delay
                    /\ \A j \in (c + 1)..(k - 1) : log[j].op # "run"
       /\ \A i, j \in CallsOf(log) :
             (i < j /\ log[j].time - log[i].time < Delay)
                 => ~\E k \in 1..Len(log) : log[k].op = "run" /\ log[k].id = log[i].id
       /\ \A t \in debounced.timers : t.id = debounced.timeoutID
       /\ (debounced.timers = {} /\ log # <<>>) => log[Len(log)].op = "run"

\* C38: the debounced function applies fn only after delay has passed since
\* the most recent call: of a burst of calls, each less than delay after the
\* one before, only the last is run, once, with its arguments, every earlier
\* pending invocation being cancelled; and the pending invocation of the last
\* call does come.
C38_Debounce ==
    /\ []DebounceSafe
    /\ (debounced.timers # {}) ~> (debounced.timers = {})

\* a burst of two calls with different arguments, less than delay apart, was
\* followed by one run of fn with the arguments of the second
C38_Witness ==
    LET log == debounced.log
    IN /\ Len(log) = 3
       /\ log[1].op = "call" /\ log[2].op = "call" /\ log[3].op = "run"
       /\ log[2].time - log[1].time < Delay
       /\ log[1].args # log[2].args
       /\ log[3].args = log[2].args

\* --------------------------------------------------------- post-sync prefetch
\* the sync entered the try block that updates the prefetched data
Prefetched(rec) ==
    \E i \in 1..Len(rec.log) :
       rec.log[i].op \in {"prefetchAfterUpdateQuiz", "ignored:prefetchAfterUpdateQuiz"}
\* the name of the update ends in "files"
FileChange(name) ==
    Len(name) >= Len(Files)
    /\ SubSeq(name, Len(name) - Len(Files) + 1, Len(name)) = Files

\* C39: the post-sync prefetch runs only in a sync that submitted data (never
\* on the nothing-to-do, discard or empty-answers paths) and in every sync that
\* resolves after submitting; the quiz is downloaded exactly when the module
\* update check reported at least one update and none whose name ends in
\* "files"; when a file changed, or nothing was reported, nothing is
\* downloaded.
C39_Prefetch ==
    \A r \in 1..Len(syncs) :
       LET rec == syncs[r]
           reported == rec.updates.updates
       IN /\ Prefetched(rec) => (Transmitted(rec) /\ rec.options.updated)
          /\ (rec.status = "resolved" /\ Transmitted(rec)) => Prefetched(rec)
          /\ (rec.status = "resolved" /\ ~Transmitted(rec)) =>
                (~Prefetched(rec) /\ ~rec.download /\ rec.updates = NoUpdates)
          /\ rec.download <=>
                /\ Prefetched(rec)
                /\ Len(reported) >= 1
                /\ \A i \in 1..Len(reported) : ~FileChange(reported[i])
          /\ (\E i \in 1..Len(reported) : FileChange(reported[i])) => ~rec.download
          /\ reported = <<>> => ~rec.download

\* a sync that submitted was told of two updates, one of them with "files"
\* inside its name but not at its end, and downloaded the quiz
C39_Witness ==
    /\ Len(syncs) >= 1 /\ syncs[1].status = "resolved"
    /\ Transmitted(syncs[1]) /\ syncs[1].download
    /\ Len(syncs[1].updates.updates) = 2
    /\ syncs[1].updates.updates[1] = Files \o <<"x">>

\* a sync that submitted was told of a file change among its updates and
\* downloaded nothing
C39_FileChanged ==
    /\ Len(syncs) >= 1 /\ syncs[1].status = "resolved"
    /\ Transmitted(syncs[1]) /\ ~syncs[1].download
    /\ Len(syncs[1].updates.updates) = 2
    /\ FileChange(syncs[1].updates.updates[2])

====
